---- MODULE Spec2Model ----
(***************************************************************************)
(* A model of the metadata extraction pipeline:                            *)
(*   - LLMPassPipeline.run_pipeline (core/llm_passes.py): per-pass retry   *)
(*     against the primary (SLM) configuration, optional single fallback   *)
(*     attempt against the LLM configuration, chaining and merging;        *)
(*   - BaseLLMPass.run_pass, JSONParser, JSONCleaner (core/parsing.py);    *)
(*   - MetadataPipeline.run (core/pipeline.py): the orchestrator.          *)
(* One behaviour of Spec is one call of MetadataPipeline.run.              *)
(* SpecRuns is two concurrent calls of run on one MetadataPipeline (the    *)
(* part that resolves and reads the shared model configuration).           *)
(* SpecComponents is the components called on their own: HeadTailChunker,  *)
(* RegexReferenceExtractor, JSONCleaner, MetadataPostProcessor.            *)
(* SpecFunctions is the functions on texts and records called on their     *)
(* own: JSONParser, CleaningPipeline, SchemaMapper.                        *)
(***************************************************************************)
EXTENDS Integers, Sequences, FiniteSets, TLC

\* ------------------------------------------------------------------ bounds
\* Largest number of passes in LLMPassPipeline.passes.
MaxPasses == 2
\* Largest value of slm_extraction_attempts.
MaxAttempts == 2
\* HeadTailChunker.head_length of the modelled chunker (the model's scale).
head_length == 1
\* Longest text, and largest max_length and head_length, of the direct calls
\* of the chunker.
MaxTextLength == 4

\* ------------------------------------------------------------- Python values
\* A JSON / Python value: None, a str or a list of str, in one record shape.
None == [t |-> "none", s |-> "", l |-> <<>>]
Str(x) == [t |-> "str", s |-> x, l |-> <<>>]
List(xs) == [t |-> "list", s |-> "", l |-> xs]

\* A Python dict is a function from its keys to values; {} is EmptyDict.
EmptyDict == [k \in {} |-> None]

\* d is falsy (None or {}): "not d".
Falsy(d) == DOMAIN d = {}

\* dict.update: the keys of e overwrite those of d, the other keys are kept.
FirstWriterWins(d, e) == [k \in (DOMAIN d) \cup (DOMAIN e) |->
                             IF k \in DOMAIN d THEN d[k] ELSE e[k]]
DictUpdate(d, e) == [k \in (DOMAIN d) \cup (DOMAIN e) |->
                        IF k \in DOMAIN e THEN e[k] ELSE d[k]]

\* {k: v for k, v in d.items() if k not in other}
WithoutKeys(d, other) == [k \in (DOMAIN d) \ (DOMAIN other) |-> d[k]]

\* The set of elements of a sequence.
Range(xs) == {xs[i] : i \in 1..Len(xs)}

\* list(set(xs)): the distinct elements of xs, in an order that the hash
\* seed of the process decides: every enumeration of the set is possible.
ListOfSet(S) == {xs \in UNION {[1..n -> S] : n \in {Cardinality(S)}} : Range(xs) = S}

\* json.dumps(obj): a str that denotes obj; a text is a str that is the
\* document's own content. Both are what a pass can receive as input_content.
TextContent(text) == [kind |-> "text", text |-> text, obj |-> EmptyDict]
JsonDumps(obj) == [kind |-> "json", text |-> <<>>, obj |-> obj]

\* ------------------------------------------------------------ configuration
\* os.getenv(var): "" stands for an unset (None) or empty variable, both falsy.
\* A variable name is <<base, suffix>>: f"{base}_{suffix}", or base alone
\* when the suffix is "".
Getenv(env, var) == IF var \in DOMAIN env THEN env[var] ELSE ""

\* language.upper()
Upper(language) ==
    IF language = "en" THEN "EN" ELSE IF language = "fr" THEN "FR" ELSE language

\* OpenAIConfig as constructed by MetadataExtractionConfig: the env var names
\* are set, model_name / api_version / endpoint are still None.
SlmDefault == [model_name_env_var_base |-> "AZURE_OPENAI_SLM",
               api_version_env_var_base |-> "AZURE_OPENAI_SLM_API_VERSION",
               endpoint_env_var |-> "AZURE_OPENAI_ENDPOINT",
               model_name |-> "", api_version |-> "", endpoint |-> ""]
LlmDefault == [model_name_env_var_base |-> "AZURE_OPENAI_LLM",
               api_version_env_var_base |-> "AZURE_OPENAI_LLM_API_VERSION",
               endpoint_env_var |-> "AZURE_OPENAI_ENDPOINT",
               model_name |-> "", api_version |-> "", endpoint |-> ""]

\* OpenAIConfig.load_from_env(language): the language-specific pair wins when
\* both of its variables are set, else the general pair; then the endpoint.
load_from_env(self, env, language) ==
    LET lang_model_name == Getenv(env, <<self.model_name_env_var_base, Upper(language)>>)
        lang_api_version == Getenv(env, <<self.api_version_env_var_base, Upper(language)>>)
        both == lang_model_name # "" /\ lang_api_version # ""
    IN [self EXCEPT
          !.model_name = IF both THEN lang_model_name
                         ELSE Getenv(env, <<self.model_name_env_var_base, "">>),
          !.api_version = IF both THEN lang_api_version
                          ELSE Getenv(env, <<self.api_version_env_var_base, "">>),
          !.endpoint = Getenv(env, <<self.endpoint_env_var, "">>)]

\* The process environments of the model: everything configured; the primary
\* (SLM) deployment name missing.
EnvFull == (<<"AZURE_OPENAI_SLM", "">> :> "slm-model")
        @@ (<<"AZURE_OPENAI_SLM_API_VERSION", "">> :> "v1")
        @@ (<<"AZURE_OPENAI_LLM", "">> :> "llm-model")
        @@ (<<"AZURE_OPENAI_LLM_API_VERSION", "">> :> "v1")
        @@ (<<"AZURE_OPENAI_ENDPOINT", "">> :> "https://endpoint")
EnvNoSlm == (<<"AZURE_OPENAI_LLM", "">> :> "llm-model")
         @@ (<<"AZURE_OPENAI_LLM_API_VERSION", "">> :> "v1")
         @@ (<<"AZURE_OPENAI_ENDPOINT", "">> :> "https://endpoint")
Envs == {EnvFull, EnvNoSlm}

\* An environment with language-specific deployments of both models for
\* English and for French, beside the general ones.
EnvPerLanguage ==
       (<<"AZURE_OPENAI_SLM", "EN">> :> "slm-model-en")
    @@ (<<"AZURE_OPENAI_SLM_API_VERSION", "EN">> :> "v1")
    @@ (<<"AZURE_OPENAI_LLM", "EN">> :> "llm-model-en")
    @@ (<<"AZURE_OPENAI_LLM_API_VERSION", "EN">> :> "v1")
    @@ (<<"AZURE_OPENAI_SLM", "FR">> :> "slm-model-fr")
    @@ (<<"AZURE_OPENAI_SLM_API_VERSION", "FR">> :> "v1")
    @@ (<<"AZURE_OPENAI_LLM", "FR">> :> "llm-model-fr")
    @@ (<<"AZURE_OPENAI_LLM_API_VERSION", "FR">> :> "v1")
    @@ EnvFull

\* ------------------------------------------------- reference extraction
\* ReferenceExtractorRegistry._extractors after the plugins are imported.
RegisteredExtractors == {"generic_refs"}

\* GENERIC_REFERENCE_PATTERNS: the URL pattern and the file-name pattern.
GENERIC_REFERENCE_PATTERNS == <<"url", "file">>

\* re.findall(pattern, text) on the patterns and the strings of the model.
\* Patterns: "url"; "file", a file name; "file_ws", a file name with the white
\* space around it; "pair", a pattern of two groups, whose matches are tuples;
\* "bad", which does not compile (re.error). Strings: "a.pdf" is a file name,
\* "see a.pdf " holds it once, "a.pdf a.pdf" twice, "p" and "fb" hold none.
FindAllRaises(pattern, text) == pattern = "bad"
FindAll(pattern, text) ==
    IF pattern = "file" /\ text \in {"a.pdf", "see a.pdf "} THEN <<"a.pdf">>
    ELSE IF pattern = "file" /\ text = "a.pdf a.pdf" THEN <<"a.pdf", "a.pdf">>
    ELSE IF pattern = "file_ws" /\ text = "see a.pdf " THEN <<" a.pdf ">>
    ELSE IF pattern = "pair" /\ text \in {"a.pdf", "see a.pdf ", "a.pdf a.pdf"}
    THEN <<"(a, pdf)">>
    ELSE <<>>

\* str.strip() on the strings of the model.
Strip(x) == IF x = " a.pdf " THEN "a.pdf" ELSE x

\* standardize_generic_reference: match.strip(); a tuple has no strip
\* (AttributeError).
StandardizeRaises(match) == match = "(a, pdf)"
standardize_generic_reference(match) == Strip(match)

\* RegexReferenceExtractor(patterns, standardize_func); standardize_func is
\* None ("none") or standardize_generic_reference.
RegexReferenceExtractor(patterns, standardize_func) ==
    [patterns |-> patterns, standardize_func |-> standardize_func]
GenericReferenceExtractor ==
    RegexReferenceExtractor(GENERIC_REFERENCE_PATTERNS, "standardize_generic_reference")

\* One turn of "for pattern in self.patterns": whether it raises, and the
\* matches it extends all_matches with.
PatternRaises(self, pattern, text) ==
    \/ FindAllRaises(pattern, text)
    \/ /\ self.standardize_func # "none"
       /\ \E m \in Range(FindAll(pattern, text)) : StandardizeRaises(m)
PatternMatches(self, pattern, text) ==
    IF self.standardize_func = "none" THEN FindAll(pattern, text)
    ELSE [i \in 1..Len(FindAll(pattern, text)) |->
             standardize_generic_reference(FindAll(pattern, text)[i])]

\* all_matches after the first n patterns (none of which raised).
RECURSIVE all_matches(_, _, _)
all_matches(self, text, n) ==
    IF n = 0 THEN <<>>
    ELSE all_matches(self, text, n - 1) \o PatternMatches(self, self.patterns[n], text)

\* "except Exception: all_matches = []"
AfterExceptionKeeps(collected) == collected
AfterException(collected) == <<>>

\* "list(set(all_matches))"
NotDeduplicated(collected) == {collected}
Deduplicated(collected) == ListOfSet(Range(collected))

\* RegexReferenceExtractor.extract_references(text): the lists it can return.
extract_references(self, text) ==
    LET raising == {i \in 1..Len(self.patterns) : PatternRaises(self, self.patterns[i], text)}
    IN IF raising # {}
       THEN LET first == CHOOSE i \in raising : \A j \in raising : i <= j
            IN Deduplicated(AfterException(all_matches(self, text, first - 1)))
       ELSE Deduplicated(all_matches(self, text, Len(self.patterns)))

\* The references the generic extractor finds in text, as a set.
ReferenceSet(text) ==
    UNION {Range(xs) : xs \in extract_references(GenericReferenceExtractor, text)}

\* ------------------------------------------------------ parsing, cleaning
\* MetadataExtractionSchema: field -> type (two of the nine fields, one of
\* each type).
MetadataExtractionSchema == [purpose |-> "str", governing_documents |-> "list"]

\* pydantic validation of obj against an all-Optional schema without
\* defaults (every field must be present, None or of its type); .dict() is
\* the schema's fields, extra keys dropped.
SchemaAccepts(schema, obj) ==
    /\ DOMAIN schema \subseteq DOMAIN obj
    /\ \A f \in DOMAIN schema : obj[f].t \in {"none", schema[f]}
SchemaDict(schema, obj) == [f \in DOMAIN schema |-> obj[f]]

\* JSONCleaner.replace_none_values: the key lists of the source.
str_keys == {"name", "version", "document_type", "status", "language", "title",
             "global_doc_ind", "purpose", "scope", "target_audience", "abbreviations",
             "quality_system", "process", "scopes", "entities", "owner_department"}
list_keys == {"governing_quality_module_or_global_standard", "related_documents",
              "referenced_documents", "external_references", "governing_documents"}

\* The values replace_none_values can leave under key for value.
ReplacedValuesUntouched(key, value) == {value}
ReplacedValues(key, value) ==
    IF value.t = "none"
    THEN IF key \in list_keys THEN {List(<<>>)}
         ELSE IF key \in str_keys THEN {Str("")} ELSE {value}
    ELSE IF value.t = "list" THEN {List(xs) : xs \in ListOfSet(Range(value.l))}
    ELSE {value}

\* All dicts d over the keys of choice with d[k] drawn from the set choice[k].
RECURSIVE Product(_)
Product(choice) ==
    IF DOMAIN choice = {} THEN {EmptyDict}
    ELSE LET k == CHOOSE x \in DOMAIN choice : TRUE
             rest == Product([x \in (DOMAIN choice) \ {k} |-> choice[x]])
         IN {[x \in DOMAIN choice |-> IF x = k THEN v ELSE d[x]] : v \in choice[k], d \in rest}

replace_none_values(data) == Product([k \in DOMAIN data |-> ReplacedValues(k, data[k])])

\* The reference-bearing fields of apply_reference_extraction and of
\* apply_references_to_fields.
specific_keys == {"governing_quality_module_or_global_standard", "governing_documents",
                  "related_documents", "referenced_documents", "external_references"}

\* The values reference extraction can leave under key for value.
ExtractedValues(key, value) ==
    IF key \in specific_keys /\ value.t = "list"
    THEN {List(xs) : xs \in ListOfSet(UNION {ReferenceSet(value.l[i]) : i \in 1..Len(value.l)})}
    ELSE IF key \in specific_keys /\ value.t = "str"
    THEN {List(xs) : xs \in extract_references(GenericReferenceExtractor, value.s)}
    ELSE {value}

\* JSONCleaner.apply_reference_extraction: skipped without a name or with an
\* unregistered name.
apply_reference_extraction(reference_extractor_name, data) ==
    IF reference_extractor_name = "" \/ reference_extractor_name \notin RegisteredExtractors
    THEN {data}
    ELSE Product([k \in DOMAIN data |-> ExtractedValues(k, data[k])])

\* JSONCleaner.clean_parsed_json
clean_parsed_json(reference_extractor_name, parsed_data) ==
    UNION {apply_reference_extraction(reference_extractor_name, cleaned_data) :
              cleaned_data \in replace_none_values(parsed_data)}

\* --------------------------------------------------------------- run_pass
\* What model_client.generate can do: raise (a service error, a timeout), or
\* return a raw text. A raw text either parses, after fence stripping and
\* repair, to the JSON object obj, or does not parse at all.
ClientRaises == [kind |-> "raise", wellformed |-> FALSE, obj |-> EmptyDict]
Malformed == [kind |-> "text", wellformed |-> FALSE, obj |-> EmptyDict]
RawJson(obj) == [kind |-> "text", wellformed |-> TRUE, obj |-> obj]

\* The JSON objects the model answers with: two that conform to the schema
\* (nulls and a duplicated list item included), one with an ill-typed field,
\* one with a missing field.
ResponseObjects ==
    { [purpose |-> None, governing_documents |-> List(<<"a.pdf", "a.pdf">>)],
      [purpose |-> Str("p"), governing_documents |-> None],
      [purpose |-> List(<<>>), governing_documents |-> None],
      [purpose |-> Str("p")] }
Responses == {ClientRaises, Malformed} \cup {RawJson(o) : o \in ResponseObjects}

\* JSONParser.parse_and_validate: TRUE when it returns, FALSE when it raises
\* ValueError (JSON that does not parse, or fails validation).
ParseSucceeds(raw, schema) == raw.wellformed /\ SchemaAccepts(schema, raw.obj)

\* The outcome of one run_pass: why = "ok" with the cleaned output, or the
\* reason of the exception: "config" (no model name or endpoint; generate is
\* not called), "client" (generate raised), "parse" (parse_and_validate
\* raised).
Outcome(why, out) == [why |-> why, out |-> out]

\* "if not model_config.model_name or not model_config.endpoint": the check
\* run_pass makes before it calls generate.
\* BaseLLMPass.run_pass(model_config, raw) with raw what generate does when it
\* is called: the set of possible outcomes (the order of a deduplicated list
\* is not determined).
NeverChecked(model_config) == FALSE
NotConfigured(model_config) ==
    model_config.model_name = "" \/ model_config.endpoint = ""
run_pass(reference_extractor_name, model_config, raw) ==
    IF NotConfigured(model_config)
    THEN {Outcome("config", EmptyDict)}
    ELSE IF raw.kind = "raise"
    THEN {Outcome("client", EmptyDict)}
    ELSE IF ~ParseSucceeds(raw, MetadataExtractionSchema)
    THEN {Outcome("parse", EmptyDict)}
    ELSE {Outcome("ok", d) :
            d \in clean_parsed_json(reference_extractor_name,
                                    SchemaDict(MetadataExtractionSchema, raw.obj))}

\* ------------------------------------------------------- loader, chunker
\* Python's "a or b" on str values ("" is None or the empty str).
Or(a, b) == IF a # <<>> THEN a ELSE b

\* DictLoader.load: the text is md_di, else md_py; without either it raises.
DictLoaderRaises(source) == Or(source.md_di, source.md_py) = <<>>
DictLoaderText(source) == Or(source.md_di, source.md_py)

\* The texts of the model are sequences of characters.
DocText == <<"a", "b", "c">>
Sources == { [md_di |-> <<>>, md_py |-> <<>>],
             [md_di |-> DocText, md_py |-> <<>>],
             [md_di |-> <<>>, md_py |-> DocText] }

\* What an injected cleaning pipeline can return for the document text.
CleanedTexts == { <<"a", "b", "c">>, <<"a", "b">> }

\* max_length of the chunker of the modelled pipeline: 2 * head_length, as
\* with the defaults of HeadTailChunker.
max_length == 2 * head_length

\* text[:n] and text[-n:] for any integer n (Python slicing: a negative bound
\* counts from the end, and -0 is 0, the start).
Prefix(text, n) ==
    IF n >= 0 THEN SubSeq(text, 1, IF n < Len(text) THEN n ELSE Len(text))
    ELSE SubSeq(text, 1, Len(text) + n)
Suffix(text, n) ==
    IF n = 0 THEN text
    ELSE IF n > 0 THEN SubSeq(text, (IF n < Len(text) THEN Len(text) - n ELSE 0) + 1, Len(text))
    ELSE SubSeq(text, (0 - n) + 1, Len(text))

\* HeadTailChunker.__init__(max_length, head_length): the condition under
\* which it raises ValueError, and the object it makes otherwise.
HeadTailChunkerRaisesLate(max_len, head_len) == head_len > max_len
HeadTailChunkerRaises(max_len, head_len) == head_len * 2 > max_len
HeadTailChunker(max_len, head_len) ==
    [constructed |-> TRUE, max_length |-> max_len, head_length |-> head_len]

\* HeadTailChunker.chunk
chunk(self, text) ==
    IF Len(text) > self.max_length
    THEN << Prefix(text, self.head_length) \o Suffix(text, self.head_length) >>
    ELSE << text >>

\* ------------------------------------------------------ DocumentMetadata
\* The canonical fields of the model: required str, Optional[str] = None,
\* List[str] = [] (five of the twenty-one fields, at least one of each kind).
DocumentMetadataFields ==
    [name |-> "required_str", language |-> "required_str", title |-> "optional_str",
     purpose |-> "optional_str", governing_documents |-> "list"]
model_fields == DOMAIN DocumentMetadataFields

FieldDefault(f) == IF DocumentMetadataFields[f] = "list" THEN List(<<>>) ELSE None

\* DocumentMetadata(**kwargs) raises ValidationError unless this holds. Extra
\* keys are allowed.
DocumentMetadataValid(kwargs) ==
    \A f \in model_fields :
       LET kind == DocumentMetadataFields[f]
       IN IF f \notin DOMAIN kwargs THEN kind # "required_str"
          ELSE CASE kind = "required_str" -> kwargs[f].t = "str"
                 [] kind = "optional_str" -> kwargs[f].t \in {"none", "str"}
                 [] OTHER -> kwargs[f].t = "list"

\* A DocumentMetadata instance: its data (.dict()) and the fields that were
\* set (what .dict(exclude_unset=True) keeps).
DocumentMetadata(kwargs) ==
    [data |-> [f \in model_fields \cup DOMAIN kwargs |->
                  IF f \in DOMAIN kwargs THEN kwargs[f] ELSE FieldDefault(f)],
     fields_set |-> DOMAIN kwargs]

\* metadata.<field> = value: no validation, the field counts as set.
SetAttr(metadata, field, value) ==
    [data |-> [f \in DOMAIN metadata.data \cup {field} |->
                  IF f = field THEN value ELSE metadata.data[f]],
     fields_set |-> metadata.fields_set \cup {field}]

\* d.get(key): None when the key is absent.
DictGet(d, key) == IF key \in DOMAIN d THEN d[key] ELSE None

\* ---------------------------------------------------------- post-processor
\* MetadataPostProcessor.apply_references_to_fields: the dicts the rebuilt
\* record can be made from (None is left alone; without a usable extractor the
\* record itself is returned, see PostProcess).
HasExtractorAnyName(reference_extractor_name) == reference_extractor_name # ""
HasExtractor(reference_extractor_name) ==
    reference_extractor_name # "" /\ reference_extractor_name \in RegisteredExtractors

PostExtractedValues(key, value) ==
    IF value.t = "none" THEN {value} ELSE ExtractedValues(key, value)

apply_references_to_fields(reference_extractor_name, metadata) ==
    IF ~HasExtractor(reference_extractor_name)
    THEN {metadata}
    ELSE {DocumentMetadata(d) :
             d \in Product([k \in DOMAIN metadata.data |->
                               PostExtractedValues(k, metadata.data[k])])}

\* Whether the DocumentMetadata(**metadata_dict) of apply_references_to_fields
\* validates for every possible metadata_dict.
apply_references_valid(reference_extractor_name, metadata) ==
    HasExtractor(reference_extractor_name) =>
       \A d \in Product([k \in DOMAIN metadata.data |->
                             PostExtractedValues(k, metadata.data[k])]) :
          DocumentMetadataValid(d)

\* MetadataPostProcessor.force_inject_filename_metadata: the dict the record
\* is rebuilt from.
force_inject_dict(metadata, filename_metadata) ==
    [f \in DOMAIN metadata.data |->
        IF f \in DOMAIN filename_metadata /\ f \in model_fields
        THEN filename_metadata[f] ELSE metadata.data[f]]

\* "return DocumentMetadata(**metadata_dict)": the record is rebuilt from the
\* whole of metadata.dict(), so every field of it counts as set.
\* (A rebuild in which a field given its default value would count as unset.)
force_inject_defaults_unset(metadata, filename_metadata) ==
    LET injected == force_inject_dict(metadata, filename_metadata)
    IN [data |-> injected,
        fields_set |-> {f \in DOMAIN injected :
                           f \in model_fields => injected[f] # FieldDefault(f)}]
force_inject_filename_metadata(metadata, filename_metadata) ==
    DocumentMetadata(force_inject_dict(metadata, filename_metadata))

\* ------------------------------------------------------------ SchemaMapper
\* DEFAULT_OUTPUT_SCHEMA_MAP, on the fields of the model.
output_schema_map == [name |-> "name", language |-> "language", purpose |-> "purpose",
                      governing_documents |-> "governing_documents"]

\* SchemaMapper.map
schema_map(metadata) ==
    LET metadata_dict == [f \in metadata.fields_set |-> metadata.data[f]]
        kept == {ck \in DOMAIN output_schema_map : ck \in DOMAIN metadata_dict}
    IN [ok \in {output_schema_map[ck] : ck \in kept} |->
           metadata_dict[CHOOSE ck \in kept : output_schema_map[ck] = ok]]

\* ------------------------------------------------------------------- state
VARIABLES
    \* the assembled pipeline and its configuration
    passes,                    \* len(LLMPassPipeline.passes); the passes are 1..passes
    attempts,                  \* config.slm_extraction_attempts
    enable_fallback,           \* config.enable_llm_fallback
    fallback_mechanism,        \* TRUE when MetadataPipeline.fallback_mechanism is not None
    env,                       \* os.environ
    chunker,                   \* MetadataPipeline.chunker: the HeadTailChunker constructed
    slm_openai_config,         \* config.slm_openai_config
    llm_openai_config,         \* config.llm_openai_config
    \* MetadataPipeline.run
    pc,                        \* the statement run is at
    document,
    filename_metadata,
    cleaned_markdown,
    processed_content_for_llm,
    llm_extracted_metadata_dict,
    fallback_result,
    processed_metadata,
    result,                    \* what run returned
    \* LLMPassPipeline.run_pipeline
    pass_index,                \* the pass the for loop is at
    attempt,                   \* primary attempts of this pass made so far
    fallback_tried,            \* the fallback attempt of this pass was made and failed
    current_content,
    final_output,
    \* history
    calls,                     \* every run_pass invocation, in order
    stages,                    \* the stages run has invoked, in order
    raised,                    \* the stages that raised, in order
    llm_outcome,               \* "none", then "raised" or "returned" (run_pipeline)
    client_answered,           \* model_client.generate has returned a raw text
    \* several calls of run on one MetadataPipeline (SpecRuns)
    runs,                      \* per call of run: its document language and its position
    \* the components called on their own (SpecComponents)
    called,                    \* the call made last: the method and its arguments
    call_result                \* what that call did: the value returned, or that it raised

confVars == <<passes, attempts, enable_fallback, fallback_mechanism, env, chunker>>
modelConfVars == <<slm_openai_config, llm_openai_config>>
docVars == <<document, filename_metadata, cleaned_markdown, processed_content_for_llm>>
extractVars == <<llm_extracted_metadata_dict, fallback_result, processed_metadata>>
loopVars == <<pass_index, attempt, fallback_tried, current_content, final_output>>
\* The state of the other specifications of this module, which one call of
\* run (Spec) leaves alone.
besideRun == <<runs, called, call_result>>
vars == <<confVars, modelConfVars, pc, docVars, extractVars, result, loopVars,
          calls, stages, raised, llm_outcome, client_answered, besideRun>>

\* config.default_language
default_language == "en"

\* reference_extractor_name of the JSONCleaner and of the post-processor
\* (setup_generic_pipeline).
configured_extractor_name == "generic_refs"

\* f1_metadata of setup_generic_pipeline, on the fields of the model.
f1_metadata == [title |-> Str("Generic Document")]

\* What an injected filename parser can return: the identity fields, or a
\* mapping without the language.
FilenameMetas == { [name |-> Str("doc"), language |-> Str("en")],
                   [name |-> Str("doc")] }

\* What a fallback mechanism can return: nothing (None or {}), or a mapping.
FallbackResults == { EmptyDict,
                     [purpose |-> Str("fb")],
                     [purpose |-> Str("p"), governing_documents |-> List(<<>>)],
                     [name |-> Str("other"),
                      governing_documents |-> List(<<"see a.pdf ", "a.pdf">>)] }

\* No call of run of SpecRuns is under way.
NoRuns == <<>>

\* No component of SpecComponents was constructed or called.
NoChunker == [constructed |-> FALSE]
NoCall == [op |-> "none"]
NoReturn == [status |-> "pending"]
Raised == [status |-> "raised"]
Returned(value) == [status |-> "returned", value |-> value]

NoDocument == [text_content |-> <<>>, initial_metadata |-> EmptyDict, language |-> ""]
NoMetadata == [data |-> EmptyDict, fields_set |-> {}]
Pending == [status |-> "pending", out |-> EmptyDict]
ReturnNone == [status |-> "None", out |-> EmptyDict]
ReturnRecord(out) == [status |-> "record", out |-> out]

\* The state at the call of run, but for slm_extraction_attempts.
InitBesideAttempts ==
    /\ passes \in 0..MaxPasses
    /\ enable_fallback \in BOOLEAN
    /\ fallback_mechanism \in BOOLEAN
    /\ env \in Envs
    /\ slm_openai_config = SlmDefault
    /\ llm_openai_config = LlmDefault
    /\ pc = "load"
    /\ document = NoDocument
    /\ filename_metadata = EmptyDict
    /\ cleaned_markdown = <<>>
    /\ processed_content_for_llm = <<>>
    /\ llm_extracted_metadata_dict = EmptyDict
    /\ fallback_result = EmptyDict
    /\ processed_metadata = NoMetadata
    /\ result = Pending
    /\ pass_index = 0
    /\ attempt = 0
    /\ fallback_tried = FALSE
    /\ current_content = TextContent(<<>>)
    /\ final_output = EmptyDict
    /\ calls = <<>>
    /\ stages = <<>>
    /\ raised = <<>>
    /\ llm_outcome = "none"
    /\ client_answered = FALSE
    /\ runs = NoRuns
    /\ chunker = HeadTailChunker(max_length, head_length)
    /\ called = NoCall
    /\ call_result = NoReturn

Init ==
    /\ attempts \in 0..MaxAttempts
    /\ InitBesideAttempts

\* ------------------------------------------------------ MetadataPipeline.run
\* The order of the statements of run: the stage that follows a stage that
\* returned. After "chunk" comes the LLM pass pipeline ("extract" is its
\* call); what follows it is decided by AfterExtraction.
StageAfterSkipping(stage) ==
    CASE stage = "load" -> "parse"
      [] stage = "parse" -> "clean"
      [] stage = "clean" -> "chunk"
      [] stage = "chunk" -> "extract"
      [] stage = "fallback" -> "map"
      [] stage = "postproc" -> "map"
      [] OTHER -> "done"
StageAfter(stage) ==
    CASE stage = "load" -> "parse"
      [] stage = "parse" -> "clean"
      [] stage = "clean" -> "chunk"
      [] stage = "chunk" -> "extract"
      [] stage = "fallback" -> "postproc"
      [] stage = "postproc" -> "map"
      [] OTHER -> "done"

\* "except Exception: ... return None" around the whole of run: the stage
\* raised, run returns None.
StageRaisesKeepsGoing(stage) ==
    /\ pc' = StageAfter(stage)
    /\ result' = result
    /\ raised' = Append(raised, stage)
StageRaises(stage) ==
    /\ pc' = "done"
    /\ result' = ReturnNone
    /\ raised' = Append(raised, stage)

\* The stage returned: run goes on with its next statement.
StageReturns(stage) ==
    /\ pc' = StageAfter(stage)
    /\ UNCHANGED <<result, raised>>

\* 1. loader_instance.load(raw_document_source, filename)
Load ==
    /\ pc = "load"
    /\ stages' = Append(stages, "load")
    /\ \E source \in Sources :
          IF DictLoaderRaises(source)
          THEN StageRaises("load") /\ UNCHANGED document
          ELSE /\ document' = [document EXCEPT !.text_content = DictLoaderText(source)]
               /\ StageReturns("load")
    /\ UNCHANGED <<confVars, besideRun, modelConfVars, filename_metadata, cleaned_markdown,
                   processed_content_for_llm, extractVars, loopVars, calls, llm_outcome, client_answered>>

\* 2. filename_parser.parse(document.filename) and the update of the document
ParseFilename ==
    /\ pc = "parse"
    /\ stages' = Append(stages, "parse")
    /\ \/ StageRaises("parse") /\ UNCHANGED <<document, filename_metadata>>
       \/ \E parsed \in FilenameMetas :
             LET initial_metadata == DictUpdate(document.initial_metadata, parsed)
             IN /\ filename_metadata' = parsed
                /\ document' = [document EXCEPT
                      !.initial_metadata = initial_metadata,
                      !.language = IF "language" \in DOMAIN initial_metadata
                                   THEN initial_metadata["language"].s
                                   ELSE default_language]
                /\ StageReturns("parse")
    /\ UNCHANGED <<confVars, besideRun, modelConfVars, cleaned_markdown, processed_content_for_llm,
                   extractVars, loopVars, calls, llm_outcome, client_answered>>

\* 3. cleaning_pipeline.clean(document.text_content, config)
Clean ==
    /\ pc = "clean"
    /\ stages' = Append(stages, "clean")
    /\ \/ StageRaises("clean") /\ UNCHANGED cleaned_markdown
       \/ \E text \in CleanedTexts :
             /\ cleaned_markdown' = text
             /\ StageReturns("clean")
    /\ UNCHANGED <<confVars, besideRun, modelConfVars, document, filename_metadata,
                   processed_content_for_llm, extractVars, loopVars, calls, llm_outcome, client_answered>>

\* 4. chunker.chunk(cleaned_markdown); the first chunk is the content
Chunk ==
    /\ pc = "chunk"
    /\ stages' = Append(stages, "chunk")
    /\ \/ StageRaises("chunk") /\ UNCHANGED processed_content_for_llm
       \/ LET chunks == chunk(chunker, cleaned_markdown)
          IN /\ processed_content_for_llm' = IF Len(chunks) > 0 THEN chunks[1] ELSE <<>>
             /\ StageReturns("chunk")
    /\ UNCHANGED <<confVars, besideRun, modelConfVars, document, filename_metadata, cleaned_markdown,
                   extractVars, loopVars, calls, llm_outcome, client_answered>>

\* 5. load_from_env of both model configurations for the document language,
\* then the call of run_pipeline: its locals before the first pass.
Extract ==
    /\ pc = "extract"
    /\ stages' = Append(stages, "llm")
    /\ slm_openai_config' = load_from_env(slm_openai_config, env, document.language)
    /\ llm_openai_config' = load_from_env(llm_openai_config, env, document.language)
    /\ current_content' = TextContent(processed_content_for_llm)
    /\ final_output' = EmptyDict
    /\ pass_index' = 1
    /\ attempt' = 0
    /\ fallback_tried' = FALSE
    /\ pc' = "llm"
    /\ UNCHANGED <<confVars, besideRun, docVars, extractVars, result, calls, raised, llm_outcome, client_answered>>

\* ------------------------------------------------ LLMPassPipeline.run_pipeline
\* "for attempt in range(attempts)": the loop makes another primary attempt.
PrimaryLoopOneMore(made, n) == made <= n
PrimaryLoopContinues(made, n) == made < n

\* "if not pass_successful and enable_fallback" once the primary loop is over
\* without a success.
FallbackAlways(enabled) == TRUE
FallbackWanted(enabled) == enabled

\* generate was called in the run_pass that had this outcome.
GenerateInvoked(outcome) == outcome.why \in {"client", "parse", "ok"}

\* One run_pass invocation as the history keeps it.
Call(config, model_config, outcome) ==
    [pass |-> pass_index, config |-> config, model_name |-> model_config.model_name,
     input |-> current_content, generated |-> GenerateInvoked(outcome),
     ok |-> outcome.why = "ok", out |-> outcome.out]

\* generate returned a raw text in this run_pass (it was called and did not
\* raise).
ClientAnswered(outcome) == outcome.why \in {"ok", "parse"}

\* The end of a successful pass: its output is serialized for the next pass
\* and merged into the accumulated result; the loop goes to the next pass.
PassSucceeds(pass_output) ==
    /\ current_content' = JsonDumps(pass_output)
    /\ final_output' = DictUpdate(final_output, pass_output)
    /\ pass_index' = pass_index + 1
    /\ attempt' = 0
    /\ fallback_tried' = FALSE

\* "except Exception as e: logger.warning(...)": the attempt failed, whatever
\* the exception, and the attempts loop goes to its next round.
ConfigErrorEndsLoop(outcome, made, n) == IF outcome.why = "config" THEN n ELSE made + 1
AttemptNotCounted(outcome, made, n) == made
AttemptFailed(outcome, made, n) == made + 1

\* One attempt of the current pass against the primary (SLM) configuration:
\* a success breaks out of the attempts loop, an exception is logged.
PrimaryAttempt ==
    /\ pc = "llm"
    /\ pass_index <= passes
    /\ ~fallback_tried
    /\ PrimaryLoopContinues(attempt, attempts)
    /\ \E raw \in Responses :
       \E outcome \in run_pass(configured_extractor_name, slm_openai_config, raw) :
          /\ calls' = Append(calls, Call("slm", slm_openai_config, outcome))
          /\ client_answered' = (client_answered \/ ClientAnswered(outcome))
          /\ IF outcome.why = "ok"
             THEN PassSucceeds(outcome.out)
             ELSE /\ attempt' = AttemptFailed(outcome, attempt, attempts)
                  /\ UNCHANGED <<pass_index, fallback_tried, current_content, final_output>>
    /\ UNCHANGED <<confVars, besideRun, modelConfVars, pc, docVars, extractVars, result,
                   stages, raised, llm_outcome>>

\* The single attempt against the fallback (LLM) configuration, after the
\* primary loop ended without a success.
FallbackAttemptForgetsSuccess ==
    /\ pc = "llm"
    /\ pass_index <= passes
    /\ ~fallback_tried
    /\ ~PrimaryLoopContinues(attempt, attempts)
    /\ FallbackWanted(enable_fallback)
    /\ \E raw \in Responses :
       \E outcome \in run_pass(configured_extractor_name, llm_openai_config, raw) :
          /\ calls' = Append(calls, Call("llm", llm_openai_config, outcome))
          /\ client_answered' = (client_answered \/ ClientAnswered(outcome))
          /\ fallback_tried' = TRUE
          /\ UNCHANGED <<pass_index, attempt, current_content, final_output>>
    /\ UNCHANGED <<confVars, besideRun, modelConfVars, pc, docVars, extractVars, result,
                   stages, raised, llm_outcome>>
FallbackAttempt ==
    /\ pc = "llm"
    /\ pass_index <= passes
    /\ ~fallback_tried
    /\ ~PrimaryLoopContinues(attempt, attempts)
    /\ FallbackWanted(enable_fallback)
    /\ \E raw \in Responses :
       \E outcome \in run_pass(configured_extractor_name, llm_openai_config, raw) :
          /\ calls' = Append(calls, Call("llm", llm_openai_config, outcome))
          /\ client_answered' = (client_answered \/ ClientAnswered(outcome))
          /\ IF outcome.why = "ok"
             THEN PassSucceeds(outcome.out)
             ELSE /\ fallback_tried' = TRUE
                  /\ UNCHANGED <<pass_index, attempt, current_content, final_output>>
    /\ UNCHANGED <<confVars, besideRun, modelConfVars, pc, docVars, extractVars, result,
                   stages, raised, llm_outcome>>

\* What run does with the result of the LLM stage (an empty dict after the
\* ValueError of run_pipeline): the fallback mechanism if the result is empty
\* and a mechanism is configured; its own ValueError, so None, if the result
\* is empty and none is configured; else the post-processing.
AfterExtractionAnyMechanism(extracted, mechanism) ==
    IF Falsy(extracted) THEN "fallback" ELSE "postproc"
AfterExtraction(extracted, mechanism) ==
    IF Falsy(extracted) /\ mechanism THEN "fallback"
    ELSE IF Falsy(extracted) THEN "done"
    ELSE "postproc"

ExtractionEnds(outcome, extracted) ==
    /\ llm_outcome' = outcome
    /\ llm_extracted_metadata_dict' = extracted
    /\ pc' = AfterExtraction(extracted, fallback_mechanism)
    /\ result' = IF AfterExtraction(extracted, fallback_mechanism) = "done"
                 THEN ReturnNone ELSE result

\* "if not pass_successful: raise ValueError": the pass failed all its
\* attempts; run catches the ValueError and goes on with an empty dict.
PassFailedReturnsPartial ==
    /\ pc = "llm"
    /\ pass_index <= passes
    /\ ~PrimaryLoopContinues(attempt, attempts)
    /\ ~FallbackWanted(enable_fallback) \/ fallback_tried
    /\ ExtractionEnds("returned", final_output)
    /\ UNCHANGED <<confVars, besideRun, modelConfVars, docVars, fallback_result, processed_metadata,
                   loopVars, calls, stages, raised, client_answered>>
PassFailedGoesOn ==
    /\ pc = "llm"
    /\ pass_index <= passes
    /\ ~PrimaryLoopContinues(attempt, attempts)
    /\ ~FallbackWanted(enable_fallback) \/ fallback_tried
    /\ pass_index' = pass_index + 1
    /\ attempt' = 0
    /\ fallback_tried' = FALSE
    /\ UNCHANGED <<confVars, besideRun, modelConfVars, pc, docVars, extractVars, result,
                   current_content, final_output, calls, stages, raised, llm_outcome,
                   client_answered>>
PassFailed ==
    /\ pc = "llm"
    /\ pass_index <= passes
    /\ ~PrimaryLoopContinues(attempt, attempts)
    /\ ~FallbackWanted(enable_fallback) \/ fallback_tried
    /\ ExtractionEnds("raised", EmptyDict)
    /\ raised' = Append(raised, "llm")
    /\ UNCHANGED <<confVars, besideRun, modelConfVars, docVars, fallback_result, processed_metadata,
                   loopVars, calls, stages, client_answered>>

\* "return final_output" after the last pass; run takes "final_output or {}".
PipelineReturns ==
    /\ pc = "llm"
    /\ pass_index > passes
    /\ ExtractionEnds("returned", final_output)
    /\ UNCHANGED <<confVars, besideRun, modelConfVars, docVars, fallback_result, processed_metadata,
                   loopVars, calls, stages, raised, client_answered>>

\* -------------------------------------------- MetadataPipeline.run, the rest
\* "if fallback_result: llm_extracted_metadata_dict = fallback_result"
FallbackResultIgnored(returned, extracted) == extracted
FallbackResultTaken(returned, extracted) ==
    IF ~Falsy(returned) THEN returned ELSE extracted

\* fallback_mechanism.extract(document_context, f1_metadata): a result that is
\* not empty replaces the extracted dict; an empty one is logged and run goes
\* on.
FallbackExtract ==
    /\ pc = "fallback"
    /\ stages' = Append(stages, "fallback")
    /\ \/ StageRaises("fallback") /\ UNCHANGED <<llm_extracted_metadata_dict, fallback_result>>
       \/ \E returned \in FallbackResults :
             /\ fallback_result' = returned
             /\ llm_extracted_metadata_dict' =
                   FallbackResultTaken(returned, llm_extracted_metadata_dict)
             /\ StageReturns("fallback")
    /\ UNCHANGED <<confVars, besideRun, modelConfVars, docVars, processed_metadata, loopVars,
                   calls, llm_outcome, client_answered>>

\* The record run builds before post-processing: the extracted keys that the
\* filename metadata does not have, over the filename metadata; then the
\* external fields are assigned.
IntermediateKwargs ==
    DictUpdate(document.initial_metadata,
               WithoutKeys(llm_extracted_metadata_dict, document.initial_metadata))
IntermediateMetadata ==
    SetAttr(DocumentMetadata(IntermediateKwargs), "title", DictGet(f1_metadata, "title"))

\* A post-processing in which the extracted values overlay the filename
\* metadata and no filename value is injected afterwards.
PostProcessExtractedWins ==
    /\ pc = "postproc"
    /\ stages' = Append(stages, "postproc")
    /\ LET kwargs == DictUpdate(document.initial_metadata, llm_extracted_metadata_dict)
       IN IF ~DocumentMetadataValid(kwargs)
          THEN StageRaises("postproc") /\ UNCHANGED processed_metadata
          ELSE /\ processed_metadata' = DocumentMetadata(kwargs)
               /\ StageReturns("postproc")
    /\ UNCHANGED <<confVars, besideRun, modelConfVars, docVars, llm_extracted_metadata_dict,
                   fallback_result, loopVars, calls, llm_outcome, client_answered>>

\* 6. The record is built and post-processed: apply_references_to_fields,
\* then force_inject_filename_metadata. A ValidationError of any of the three
\* DocumentMetadata constructions ends the run.
PostProcess ==
    /\ pc = "postproc"
    /\ stages' = Append(stages, "postproc")
    /\ IF ~DocumentMetadataValid(IntermediateKwargs)
          \/ ~apply_references_valid(configured_extractor_name, IntermediateMetadata)
       THEN StageRaises("postproc") /\ UNCHANGED processed_metadata
       ELSE \E applied \in apply_references_to_fields(configured_extractor_name,
                                                      IntermediateMetadata) :
               LET injected == force_inject_dict(applied, filename_metadata)
               IN IF ~DocumentMetadataValid(injected)
                  THEN StageRaises("postproc") /\ UNCHANGED processed_metadata
                  ELSE /\ processed_metadata' =
                              force_inject_filename_metadata(applied, filename_metadata)
                       /\ StageReturns("postproc")
    /\ UNCHANGED <<confVars, besideRun, modelConfVars, docVars, llm_extracted_metadata_dict,
                   fallback_result, loopVars, calls, llm_outcome, client_answered>>

\* 7. schema_mapper.map(processed_metadata) is what run returns.
Map ==
    /\ pc = "map"
    /\ stages' = Append(stages, "map")
    /\ pc' = StageAfter("map")
    /\ result' = ReturnRecord(schema_map(processed_metadata))
    /\ UNCHANGED <<confVars, besideRun, modelConfVars, docVars, extractVars, loopVars,
                   calls, raised, llm_outcome, client_answered>>

Next ==
    \/ Load
    \/ ParseFilename
    \/ Clean
    \/ Chunk
    \/ Extract
    \/ PrimaryAttempt
    \/ FallbackAttempt
    \/ PassFailed
    \/ PipelineReturns
    \/ FallbackExtract
    \/ PostProcess
    \/ Map

Spec == Init /\ [][Next]_vars

\* A call of run with any integer as slm_extraction_attempts (the
\* configuration takes int(os.getenv("SLM_EXTRACTION_ATTEMPTS"))), in which
\* every run_pass (so every model call) that run_pipeline makes returns or
\* raises and the loops of run_pipeline go on from there.
InitAnyAttempts ==
    /\ attempts \in (0 - 1)..MaxAttempts
    /\ InitBesideAttempts
RunPipelineStep ==
    \/ PrimaryAttempt
    \/ FallbackAttempt
    \/ PassFailed
    \/ PipelineReturns
SpecAnyAttempts == InitAnyAttempts /\ [][Next]_vars /\ WF_vars(RunPipelineStep)

\* ================================================== concurrent calls of run
\* Two calls of MetadataPipeline.run on one MetadataPipeline, hence on one
\* config and its two OpenAIConfig objects, for documents whose languages may
\* differ. Of each call the part that touches the model configuration is
\* modelled: the two load_from_env calls, and the run_pass invocations of
\* run_pipeline, each of which reads model_config.model_name from the shared
\* object when it is made. A step is one load_from_env call or one run_pass
\* invocation; the calls of run interleave at these steps.
Languages == {"en", "fr"}
RunIds == {1, 2}

\* A call of run that has resolved document.language and is about to execute
\* the load_from_env statements; used is the set of <<config, model name>>
\* its model invocations were made with.
RunStart(language) ==
    [language |-> language, pc |-> "slm_env", pass_index |-> 0, attempt |-> 0,
     fallback_tried |-> FALSE, used |-> {}]

\* The locals of the single call of Spec, which SpecRuns does not use.
NothingRun ==
    /\ pc = "load"
    /\ document = NoDocument
    /\ filename_metadata = EmptyDict
    /\ cleaned_markdown = <<>>
    /\ processed_content_for_llm = <<>>
    /\ llm_extracted_metadata_dict = EmptyDict
    /\ fallback_result = EmptyDict
    /\ processed_metadata = NoMetadata
    /\ result = Pending
    /\ pass_index = 0
    /\ attempt = 0
    /\ fallback_tried = FALSE
    /\ current_content = TextContent(<<>>)
    /\ final_output = EmptyDict
    /\ calls = <<>>
    /\ stages = <<>>
    /\ raised = <<>>
    /\ llm_outcome = "none"
    /\ client_answered = FALSE

InitRuns ==
    /\ passes \in 1..MaxPasses
    /\ attempts \in 1..MaxAttempts
    /\ enable_fallback \in BOOLEAN
    /\ fallback_mechanism = FALSE
    /\ env = EnvPerLanguage
    /\ slm_openai_config = SlmDefault
    /\ llm_openai_config = LlmDefault
    /\ NothingRun
    /\ runs \in [RunIds -> {RunStart(language) : language \in Languages}]
    /\ chunker = HeadTailChunker(max_length, head_length)
    /\ called = NoCall
    /\ call_result = NoReturn

\* The variables the calls of SpecRuns leave alone.
runsFrame == <<confVars, pc, docVars, extractVars, result, loopVars,
               calls, stages, raised, llm_outcome, client_answered,
               called, call_result>>

\* self.config.slm_openai_config.load_from_env(language=document.language)
ResolveSlm(r) ==
    /\ runs[r].pc = "slm_env"
    /\ slm_openai_config' = load_from_env(slm_openai_config, env, runs[r].language)
    /\ runs' = [runs EXCEPT ![r].pc = "llm_env"]
    /\ UNCHANGED <<llm_openai_config, runsFrame>>

\* self.config.llm_openai_config.load_from_env(language=document.language),
\* then the entry of run_pipeline.
ResolveLlm(r) ==
    /\ runs[r].pc = "llm_env"
    /\ llm_openai_config' = load_from_env(llm_openai_config, env, runs[r].language)
    /\ runs' = [runs EXCEPT ![r].pc = "llm", ![r].pass_index = 1]
    /\ UNCHANGED <<slm_openai_config, runsFrame>>

\* What one run_pass invocation of call r does to r: the model is invoked
\* with model_config.model_name as it is now; the pass succeeds or fails.
Invoked(r, config, model_config, ok) ==
    [runs[r] EXCEPT
       !.used = @ \cup {<<config, model_config.model_name>>},
       !.pass_index = IF ok THEN @ + 1 ELSE @,
       !.attempt = IF ok THEN 0 ELSE IF config = "slm" THEN @ + 1 ELSE @,
       !.fallback_tried = IF ok THEN FALSE ELSE IF config = "llm" THEN TRUE ELSE @]

\* A primary attempt of call r (PrimaryAttempt of Spec).
RunPrimaryAttempt(r) ==
    /\ runs[r].pc = "llm"
    /\ runs[r].pass_index <= passes
    /\ ~runs[r].fallback_tried
    /\ PrimaryLoopContinues(runs[r].attempt, attempts)
    /\ \E ok \in BOOLEAN :
          runs' = [runs EXCEPT ![r] = Invoked(r, "slm", slm_openai_config, ok)]
    /\ UNCHANGED <<modelConfVars, runsFrame>>

\* The fallback attempt of call r (FallbackAttempt of Spec).
RunFallbackAttempt(r) ==
    /\ runs[r].pc = "llm"
    /\ runs[r].pass_index <= passes
    /\ ~runs[r].fallback_tried
    /\ ~PrimaryLoopContinues(runs[r].attempt, attempts)
    /\ FallbackWanted(enable_fallback)
    /\ \E ok \in BOOLEAN :
          runs' = [runs EXCEPT ![r] = Invoked(r, "llm", llm_openai_config, ok)]
    /\ UNCHANGED <<modelConfVars, runsFrame>>

\* run_pipeline of call r raises (PassFailed) or returns (PipelineReturns).
RunPipelineEnds(r) ==
    /\ runs[r].pc = "llm"
    /\ \/ runs[r].pass_index > passes
       \/ /\ ~PrimaryLoopContinues(runs[r].attempt, attempts)
          /\ ~FallbackWanted(enable_fallback) \/ runs[r].fallback_tried
    /\ runs' = [runs EXCEPT ![r].pc = "done"]
    /\ UNCHANGED <<modelConfVars, runsFrame>>

NextRuns ==
    \E r \in RunIds :
       \/ ResolveSlm(r)
       \/ ResolveLlm(r)
       \/ RunPrimaryAttempt(r)
       \/ RunFallbackAttempt(r)
       \/ RunPipelineEnds(r)

SpecRuns == InitRuns /\ [][NextRuns]_vars

\* The model name load_from_env resolves for a language.
ResolvedModel(default, language) == load_from_env(default, env, language).model_name

\* ============================================== JSONParser on the raw text
\* A raw text is a sequence of characters. The JSON of the model: objects
\* whose values are strings, integers and arrays of strings, over the
\* characters below.
Whitespace == {" ", "\n"}
Num(x) == [t |-> "int", s |-> x, l |-> <<>>]

\* "".join(chars)
RECURSIVE Join(_)
Join(chars) == IF chars = <<>> THEN "" ELSE Head(chars) \o Join(Tail(chars))

\* str.strip(), str.startswith(prefix), str.endswith(suffix)
strip(text) ==
    LET inked == {i \in 1..Len(text) : text[i] \notin Whitespace}
    IN  IF inked = {} THEN <<>>
        ELSE SubSeq(text, CHOOSE i \in inked : \A j \in inked : i <= j,
                          CHOOSE i \in inked : \A j \in inked : i >= j)
startswith(text, prefix) ==
    Len(text) >= Len(prefix) /\ SubSeq(text, 1, Len(prefix)) = prefix
endswith(text, suffix) ==
    Len(text) >= Len(suffix)
    /\ SubSeq(text, Len(text) - Len(suffix) + 1, Len(text)) = suffix

\* The grave accent, the character of a code fence (written by name: the
\* character itself cannot stand in a string here).
Grave == "grave"
FenceOpen == <<Grave, Grave, Grave, "j", "s", "o", "n">>
FenceClose == <<Grave, Grave, Grave>>

\* JSONParser.strip_json_code_block(text)
strip_json_code_block(text) ==
    LET stripped == strip(text)
        opened == IF startswith(stripped, FenceOpen)
                  THEN strip(SubSeq(stripped, Len(FenceOpen) + 1, Len(stripped)))
                  ELSE stripped
    IN  IF endswith(opened, FenceClose)
        THEN strip(SubSeq(opened, 1, Len(opened) - Len(FenceClose)))
        ELSE opened

\* json_string.replace: every single quote becomes a double quote.
ReplaceQuotes(text) == [i \in 1..Len(text) |-> IF text[i] = "'" THEN "\"" ELSE text[i]]

\* A match of ,(\s*[}\]]) starts at the comma text[i].
TrailingComma(text, i) ==
    /\ text[i] = ","
    /\ \E j \in (i + 1)..Len(text) :
          /\ text[j] \in {"}", "]"}
          /\ \A k \in (i + 1)..(j - 1) : text[k] \in Whitespace

\* re.sub(r',(\s*[}\]])', r'\1', text): every such comma is dropped (a match
\* holds one comma, so no two matches overlap).
KeepsCommas(text, i) == SubSeq(text, i, Len(text))
RECURSIVE DropCommas(_, _)
DropCommas(text, i) ==
    IF i > Len(text) THEN <<>>
    ELSE (IF TrailingComma(text, i) THEN <<>> ELSE <<text[i]>>)
         \o DropCommas(text, i + 1)
RemoveTrailingCommas(text) == DropCommas(text, 1)

\* What a step of the JSON decoder gives: a failure (JSONDecodeError), or
\* the value read and the position after it; kind tells a dict from the
\* other values.
Fail == [ok |-> FALSE, kind |-> "none", value |-> None, next |-> 0]
Parsed(kind, value, next) == [ok |-> TRUE, kind |-> kind, value |-> value, next |-> next]

RECURSIVE SkipWs(_, _)
SkipWs(s, i) == IF i <= Len(s) /\ s[i] \in Whitespace THEN SkipWs(s, i + 1) ELSE i

\* A string: from a double quote to the next one; a line break inside a
\* string is a control character, which the strict decoder refuses.
ParseString(s, i) ==
    IF i > Len(s) \/ s[i] # "\"" THEN Fail
    ELSE LET ends == {j \in (i + 1)..Len(s) : s[j] = "\""}
         IN  IF ends = {} THEN Fail
             ELSE LET j == CHOOSE e \in ends : \A f \in ends : e <= f
                  IN  IF \E k \in (i + 1)..(j - 1) : s[k] = "\n" THEN Fail
                      ELSE Parsed("value", Str(Join(SubSeq(s, i + 1, j - 1))), j + 1)

\* An integer: a run of digits.
RECURSIVE DigitsEnd(_, _)
DigitsEnd(s, i) == IF i <= Len(s) /\ s[i] = "1" THEN DigitsEnd(s, i + 1) ELSE i
ParseNumber(s, i) ==
    IF DigitsEnd(s, i) = i THEN Fail
    ELSE Parsed("value", Num(Join(SubSeq(s, i, DigitsEnd(s, i) - 1))), DigitsEnd(s, i))

\* The items of an array after its "[" or after a comma: i is at an item.
RECURSIVE ArrayItems(_, _, _)
ArrayItems(s, i, items) ==
    LET item == ParseString(s, i)
        j == SkipWs(s, item.next)
    IN  IF ~item.ok \/ j > Len(s) THEN Fail
        ELSE IF s[j] = "]" THEN Parsed("value", List(Append(items, item.value.s)), j + 1)
        ELSE IF s[j] = "," THEN ArrayItems(s, SkipWs(s, j + 1), Append(items, item.value.s))
        ELSE Fail
ParseArray(s, i) ==
    LET j == SkipWs(s, i + 1)
    IN  IF j > Len(s) THEN Fail
        ELSE IF s[j] = "]" THEN Parsed("value", List(<<>>), j + 1)
        ELSE ArrayItems(s, j, <<>>)

ParseMemberValue(s, i) ==
    IF i > Len(s) THEN Fail
    ELSE IF s[i] = "\"" THEN ParseString(s, i)
    ELSE IF s[i] = "[" THEN ParseArray(s, i)
    ELSE ParseNumber(s, i)

\* The members of an object after its "{" or after a comma: i is at a key.
\* A key read twice keeps its last value.
RECURSIVE ObjectMembers(_, _, _)
ObjectMembers(s, i, obj) ==
    LET key == ParseString(s, i)
        colon == SkipWs(s, key.next)
    IN  IF ~key.ok \/ colon > Len(s) \/ s[colon] # ":" THEN Fail
        ELSE LET member == ParseMemberValue(s, SkipWs(s, colon + 1))
                 j == SkipWs(s, member.next)
                 read == DictUpdate(obj, [k \in {key.value.s} |-> member.value])
             IN  IF ~member.ok \/ j > Len(s) THEN Fail
                 ELSE IF s[j] = "}" THEN Parsed("dict", read, j + 1)
                 ELSE IF s[j] = "," THEN ObjectMembers(s, SkipWs(s, j + 1), read)
                 ELSE Fail
ParseObject(s, i) ==
    LET j == SkipWs(s, i + 1)
    IN  IF j > Len(s) THEN Fail
        ELSE IF s[j] = "}" THEN Parsed("dict", EmptyDict, j + 1)
        ELSE ObjectMembers(s, j, EmptyDict)

\* json.loads(s): one value, with nothing but whitespace around it.
json_loads(s) ==
    LET i == SkipWs(s, 1)
        read == IF i > Len(s) THEN Fail
                ELSE IF s[i] = "{" THEN ParseObject(s, i)
                ELSE ParseMemberValue(s, i)
    IN  IF read.ok /\ SkipWs(s, read.next) = Len(s) + 1 THEN read ELSE Fail

\* JSONParser.attempt_fix_json(json_string)
attempt_fix_json(json_string) ==
    json_loads(RemoveTrailingCommas(ReplaceQuotes(json_string)))

\* JSONParser.parse_and_validate(json_string, schema): the dict of the
\* validated model it returns, or the ValueError it raises (the text does not
\* parse, is not an object, or fails validation).
parse_and_validate(json_string, schema) ==
    LET parsed_data == attempt_fix_json(strip_json_code_block(json_string))
    IN  IF parsed_data.ok /\ parsed_data.kind = "dict"
           /\ SchemaAccepts(schema, parsed_data.value)
        THEN Returned(SchemaDict(schema, parsed_data.value))
        ELSE Raised

\* ------------------------------------------------------- SchemaMapper.map
\* metadata.dict(exclude_unset=True): the fields that were set, extras
\* included.
DictIncludingUnset(metadata) == metadata.data
DictExcludeUnset(metadata) == [f \in metadata.fields_set |-> metadata.data[f]]

\* The loop of SchemaMapper.map over output_schema_map.items(), a dict in
\* the order of its insertion: a sequence of <<canonical_key, output_key>>.
RECURSIVE MapItems(_, _, _)
MapItems(items, metadata_dict, output) ==
    IF items = <<>> THEN output
    ELSE LET canonical_key == items[1][1]
             output_key == items[1][2]
         IN  MapItems(Tail(items), metadata_dict,
                      IF canonical_key \in DOMAIN metadata_dict
                      THEN DictUpdate(output, [k \in {output_key} |->
                                                  metadata_dict[canonical_key]])
                      ELSE output)

\* SchemaMapper(output_schema_map).map(metadata)
SchemaMapper_map(items, metadata) ==
    MapItems(items, DictExcludeUnset(metadata), EmptyDict)

\* ------------------------------------------ cleaning (core/cleaning.py)
\* A text is a sequence of characters, as for JSONParser.
\* The word is in the text at position i; the first position at or after
\* from where it is, 0 when there is none.
MatchesAt(text, i, word) ==
    i + Len(word) - 1 <= Len(text) /\ SubSeq(text, i, i + Len(word) - 1) = word
FirstAt(text, from, word) ==
    LET at == {i \in from..Len(text) : MatchesAt(text, i, word)}
    IN  IF at = {} THEN 0 ELSE CHOOSE i \in at : \A j \in at : i <= j

\* re.sub(word, replacement, text) for a pattern that is a literal word:
\* the matches are taken from the left and do not overlap; the replacement
\* is not searched again.
RECURSIVE SubLiteral(_, _, _)
SubLiteral(text, word, replacement) ==
    LET i == FirstAt(text, 1, word)
    IN  IF i = 0 THEN text
        ELSE SubSeq(text, 1, i - 1) \o replacement
             \o SubLiteral(SubSeq(text, i + Len(word), Len(text)), word, replacement)

\* re.sub(pattern, "", text, flags=re.DOTALL) for a pattern open.*?close:
\* a match runs from the first open that has a close after it to the first
\* such close.
RECURSIVE SubDelimited(_, _)
SubDelimited(text, pattern) ==
    LET i == FirstAt(text, 1, pattern.open)
        j == IF i = 0 THEN 0 ELSE FirstAt(text, i + Len(pattern.open), pattern.close)
    IN  IF i = 0 \/ j = 0 THEN text
        ELSE SubSeq(text, 1, i - 1)
             \o SubDelimited(SubSeq(text, j + Len(pattern.close), Len(text)), pattern)

\* CleaningConfig.patterns_to_remove and selection_mappings, the defaults:
\* the figure, page footer and page header patterns; the two selection tags
\* (the ballot boxes written by name).
FigurePattern == [open |-> <<"<", "f", "i", "g", "u", "r", "e", ">">>, close |-> <<"<", "/", "f", "i", "g", "u", "r", "e", ">">>]
PageFooterPattern == [open |-> <<"<", "!", "-", "-", " ", "P", "a", "g", "e", "F", "o", "o", "t", "e", "r", "=", "\"">>, close |-> <<"\"", " ", "-", "-", ">">>]
PageHeaderPattern == [open |-> <<"<", "!", "-", "-", " ", "P", "a", "g", "e", "H", "e", "a", "d", "e", "r", "=", "\"">>, close |-> <<"\"", " ", "-", "-", ">">>]
DefaultPatternsToRemove == <<FigurePattern, PageFooterPattern, PageHeaderPattern>>
DefaultSelectionMappings ==
    << <<<<":", "s", "e", "l", "e", "c", "t", "e", "d", ":">>, <<"ballot_box_x">> >>,
       <<<<":", "u", "n", "s", "e", "l", "e", "c", "t", "e", "d", ":">>, <<"ballot_box">> >> >>

\* The config argument of clean: None, or a configuration whose cleaning
\* section has these fields.
NoCleaningConfig == [given |-> FALSE, patterns_to_remove |-> <<>>, selection_mappings |-> <<>>]
CleaningConfig(patterns, mappings) ==
    [given |-> TRUE, patterns_to_remove |-> patterns, selection_mappings |-> mappings]

\* PatternRemover.clean: the loop over patterns_to_remove.
RECURSIVE RemovePatterns(_, _)
RemovePatterns(text, patterns) ==
    IF patterns = <<>> THEN text
    ELSE RemovePatterns(SubDelimited(text, Head(patterns)), Tail(patterns))
PatternRemover(text, config) ==
    IF ~config.given \/ config.patterns_to_remove = <<>> THEN text
    ELSE RemovePatterns(text, config.patterns_to_remove)

\* SelectionTagReplacer.clean: the loop over selection_mappings.items().
RECURSIVE ReplaceTags(_, _)
ReplaceTags(text, mappings) ==
    IF mappings = <<>> THEN text
    ELSE ReplaceTags(SubLiteral(text, Head(mappings)[1], Head(mappings)[2]),
                     Tail(mappings))
SelectionTagReplacer(text, config) ==
    IF ~config.given \/ config.selection_mappings = <<>> THEN text
    ELSE ReplaceTags(text, config.selection_mappings)

\* The run of white space that holds position i of the text: its first and
\* last position.
WsRunStart(text, i) ==
    CHOOSE b \in 1..i : /\ \A k \in b..i : text[k] \in Whitespace
                        /\ b = 1 \/ text[b - 1] \notin Whitespace
WsRunEnd(text, i) ==
    CHOOSE e \in i..Len(text) : /\ \A k \in i..e : text[k] \in Whitespace
                                /\ e = Len(text) \/ text[e + 1] \notin Whitespace
LineBreaks(text, i) == {k \in WsRunStart(text, i)..WsRunEnd(text, i) : text[k] = "\n"}

\* The characters of a text that are not the mark "" of a removed one.
Unmarked(marked) == SelectSeq(marked, LAMBDA c : c # "")

\* ExcessBreakLineRemover.clean: re.sub(r'(\n\s*){3,}', '\n\n', text). A
\* match starts at the first line break of a run of white space and takes
\* the run to its end, when the run has three line breaks or more: two line
\* breaks stand for what the match took.
ExcessBreakLineRemover(text) ==
    Unmarked([i \in 1..Len(text) |->
        IF text[i] \notin Whitespace \/ Cardinality(LineBreaks(text, i)) < 3 THEN text[i]
        ELSE LET first == CHOOSE k \in LineBreaks(text, i) :
                              \A j \in LineBreaks(text, i) : k <= j
             IN  IF i < first THEN text[i]
                 ELSE IF i <= first + 1 THEN "\n"
                 ELSE ""])

\* markdownify(text) of the installed markdownify, on a text that neither
\* begins nor ends with white space: the tags of an element without a
\* Markdown form are dropped and its text kept, each underscore is escaped
\* with a backslash, and white space around a line break is kept or made one
\* line break, as the version installed does.
MarkdownifyVersions == {"keeps_line_breaks", "normalizes_line_breaks"}
EscapeUnderscores(text) ==
    LET at(i) == i + Cardinality({k \in 1..i : text[k] = "_"})
    IN  [j \in 1..at(Len(text)) |->
            IF \E i \in 1..Len(text) : at(i) = j
            THEN text[CHOOSE i \in 1..Len(text) : at(i) = j]
            ELSE "\\"]
NormalizeBreaks(text) ==
    Unmarked([i \in 1..Len(text) |->
        IF text[i] \notin Whitespace \/ LineBreaks(text, i) = {} THEN text[i]
        ELSE IF i = WsRunStart(text, i) THEN "\n"
        ELSE ""])
markdownify(text, version) ==
    LET untagged == SubLiteral(SubLiteral(text, FigurePattern.open, <<>>),
                               FigurePattern.close, <<>>)
        escaped == EscapeUnderscores(untagged)
    IN  IF version = "normalizes_line_breaks" THEN NormalizeBreaks(escaped)
        ELSE escaped

\* MarkdownConverter.clean
MarkdownConverter(text, version) == markdownify(text, version)

\* CleaningPipeline(cleaners).clean(text, config): the cleaners in order.
RECURSIVE CleaningPipeline_clean(_, _, _, _)
CleaningPipeline_clean(cleaners, text, config, version) ==
    IF cleaners = <<>> THEN text
    ELSE LET cleaner == Head(cleaners)
             cleaned == CASE cleaner = "ExcessBreakLineRemover" -> ExcessBreakLineRemover(text)
                          [] cleaner = "PatternRemover" -> PatternRemover(text, config)
                          [] cleaner = "SelectionTagReplacer" -> SelectionTagReplacer(text, config)
                          [] cleaner = "MarkdownConverter" -> MarkdownConverter(text, version)
         IN  CleaningPipeline_clean(Tail(cleaners), cleaned, config, version)

\* get_generic_cleaning_pipeline()
get_generic_cleaning_pipeline ==
    <<"ExcessBreakLineRemover", "PatternRemover", "SelectionTagReplacer",
      "MarkdownConverter">>

\* ================================================ the components on their own
\* The components of the pipeline called directly, with arguments of the
\* caller's choice: one action per method, its arguments drawn from the sets
\* below; called and call_result keep the call made last and what it did.
componentsFrame == <<passes, attempts, enable_fallback, fallback_mechanism, env,
                     modelConfVars, pc, docVars, extractVars, result, loopVars,
                     calls, stages, raised, llm_outcome, client_answered, runs>>

InitComponents ==
    /\ passes = 0
    /\ attempts = 0
    /\ enable_fallback = FALSE
    /\ fallback_mechanism = FALSE
    /\ env = EnvFull
    /\ slm_openai_config = SlmDefault
    /\ llm_openai_config = LlmDefault
    /\ NothingRun
    /\ runs = NoRuns
    /\ chunker = NoChunker
    /\ called = NoCall
    /\ call_result = NoReturn

\* The records and the filename metadata force_inject_filename_metadata is
\* called with: "summary" is a key outside the schema (extra = "allow").
InjectRecords ==
    { DocumentMetadata([name |-> Str("llm"), language |-> Str("en")]),
      DocumentMetadata([name |-> Str("llm"), language |-> Str("en"),
                        purpose |-> Str("p"), summary |-> Str("s")]) }
InjectFilenameMetas ==
    { EmptyDict,
      [name |-> Str("doc")],
      [name |-> Str("doc"), language |-> Str("fr"), summary |-> Str("from name")],
      [name |-> None] }

\* MetadataPostProcessor.force_inject_filename_metadata(metadata,
\* filename_metadata): DocumentMetadata(**metadata_dict) validates or raises.
ForceInjectFilenameMetadata ==
    /\ \E metadata \in InjectRecords, fm \in InjectFilenameMetas :
          /\ called' = [op |-> "force_inject_filename_metadata",
                        metadata |-> metadata, filename_metadata |-> fm]
          /\ call_result' = IF DocumentMetadataValid(force_inject_dict(metadata, fm))
                         THEN Returned(DocumentMetadata(force_inject_dict(metadata, fm)))
                         ELSE Raised
    /\ UNCHANGED <<chunker, componentsFrame>>

\* The arguments of the direct calls of the chunker: lengths from below zero
\* up, and texts of every length whose characters are all different.
ChunkerLengths == (0 - 2)..MaxTextLength
ChunkerTexts == {[i \in 1..n |-> i] : n \in 0..MaxTextLength}

\* HeadTailChunker(max_length, head_length)
ConstructChunker ==
    /\ \E max_len \in ChunkerLengths, head_len \in ChunkerLengths :
          /\ called' = [op |-> "HeadTailChunker", max_length |-> max_len,
                        head_length |-> head_len]
          /\ IF HeadTailChunkerRaises(max_len, head_len)
             THEN call_result' = Raised /\ UNCHANGED chunker
             ELSE /\ chunker' = HeadTailChunker(max_len, head_len)
                  /\ call_result' = Returned(HeadTailChunker(max_len, head_len))
    /\ UNCHANGED componentsFrame

\* chunker.chunk(text) on the chunker constructed
ChunkText ==
    /\ chunker.constructed
    /\ \E text \in ChunkerTexts :
          /\ called' = [op |-> "chunk", self |-> chunker, text |-> text]
          /\ call_result' = Returned(chunk(chunker, text))
    /\ UNCHANGED <<chunker, componentsFrame>>

\* The extractors and the texts of the direct calls of extract_references.
PatternLists == { <<>>, <<"url", "file">>, <<"file", "file_ws">>, <<"file", "file">>,
                  <<"file", "bad">>, <<"bad", "file">>, <<"file", "pair">> }
ReferenceExtractors ==
    {RegexReferenceExtractor(patterns, standardize_func) :
        patterns \in PatternLists,
        standardize_func \in {"none", "standardize_generic_reference"}}
ReferenceTexts == {"p", "a.pdf", "see a.pdf ", "a.pdf a.pdf"}

\* RegexReferenceExtractor(patterns, standardize_func).extract_references(text)
ExtractReferences ==
    /\ \E self \in ReferenceExtractors, text \in ReferenceTexts :
          /\ called' = [op |-> "extract_references", self |-> self, text |-> text]
          /\ \E references \in extract_references(self, text) :
                call_result' = Returned(references)
    /\ UNCHANGED <<chunker, componentsFrame>>

\* The reference extractor names a JSONCleaner or a MetadataPostProcessor is
\* made with: none, the registered one, one that is not registered.
ExtractorNames == {"", "generic_refs", "missing_refs"}

\* The dicts of the direct calls of JSONCleaner.apply_reference_extraction.
CleanerDicts ==
    { [purpose |-> Str("p"), governing_documents |-> List(<<"see a.pdf ", "a.pdf">>)],
      [purpose |-> Str("a.pdf"), governing_documents |-> Str("see a.pdf ")],
      [purpose |-> None, governing_documents |-> None] }

\* JSONCleaner(reference_extractor_name).apply_reference_extraction(data)
ApplyReferenceExtraction ==
    /\ \E name \in ExtractorNames, data \in CleanerDicts :
          /\ called' = [op |-> "apply_reference_extraction",
                        reference_extractor_name |-> name, data |-> data]
          /\ \E final \in apply_reference_extraction(name, data) :
                call_result' = Returned(final)
    /\ UNCHANGED <<chunker, componentsFrame>>

\* The records of the direct calls of apply_references_to_fields.
PostProcessorRecords ==
    { DocumentMetadata([name |-> Str("doc"), language |-> Str("en"),
                        governing_documents |-> List(<<"see a.pdf ", "a.pdf">>)]),
      DocumentMetadata([name |-> Str("doc"), language |-> Str("en"),
                        purpose |-> Str("a.pdf")]) }

\* MetadataPostProcessor(reference_extractor_name)
\*    .apply_references_to_fields(metadata)
ApplyReferencesToFields ==
    /\ \E name \in ExtractorNames, metadata \in PostProcessorRecords :
          /\ called' = [op |-> "apply_references_to_fields",
                        reference_extractor_name |-> name, metadata |-> metadata]
          /\ IF ~apply_references_valid(name, metadata)
             THEN call_result' = Raised
             ELSE \E applied \in apply_references_to_fields(name, metadata) :
                     call_result' = Returned(applied)
    /\ UNCHANGED <<chunker, componentsFrame>>

\* The raw texts of the direct calls of parse_and_validate: the documents
\* below written as JSON, with either quote character around keys and
\* strings, with or without a comma before each closing brace or bracket,
\* with or without the code fence; and texts that are no JSON object.
ParseStrings == { <<"s">>, <<"i", "t", "'", "s">>, <<"x", "\"", "y">>,
                  <<"x", ",", "}">> }
ParseDocuments ==
    {[t |-> "int", items |-> <<>>]}
    \cup {[t |-> "str", items |-> <<chars>>] : chars \in ParseStrings}
    \cup {[t |-> "list", items |-> <<<<"s">>, chars>>] : chars \in ParseStrings}

\* The text of a string, of a document's value, of the document {"a": value}.
Quoted(chars, quote) == <<quote>> \o chars \o <<quote>>
RenderValue(doc, quote, trailing) ==
    IF doc.t = "int" THEN <<"1">>
    ELSE IF doc.t = "str" THEN Quoted(doc.items[1], quote)
    ELSE <<"[">> \o Quoted(doc.items[1], quote) \o <<",", " ">>
         \o Quoted(doc.items[2], quote)
         \o (IF trailing THEN <<",">> ELSE <<>>) \o <<"]">>
Render(doc, quote, trailing, fenced) ==
    (IF fenced THEN FenceOpen \o <<"\n">> ELSE <<>>)
    \o <<"{">> \o Quoted(<<"a">>, quote) \o <<":", " ">>
    \o RenderValue(doc, quote, trailing)
    \o (IF trailing THEN <<",">> ELSE <<>>) \o <<"}">>
    \o (IF fenced THEN <<"\n">> \o FenceClose ELSE <<>>)

\* The record a document denotes.
Denoted(doc) ==
    [k \in {"a"} |-> IF doc.t = "int" THEN Num("1")
                     ELSE IF doc.t = "str" THEN Str(Join(doc.items[1]))
                     ELSE List(<<Join(doc.items[1]), Join(doc.items[2])>>)]

\* The quote character delimits the strings of the document: none holds it.
Delimits(doc, quote) ==
    \A n \in 1..Len(doc.items) : quote \notin Range(doc.items[n])

ParseTexts ==
    {Render(doc, quote, trailing, fenced) :
        doc \in {d \in ParseDocuments : Delimits(d, "'")} \cup
                {d \in ParseDocuments : Delimits(d, "\"")},
        quote \in {"'", "\""}, trailing \in BOOLEAN, fenced \in BOOLEAN}
    \cup { <<>>, <<"{">>, <<"[", "\"", "s", "\"", "]">>, <<"1">>, <<"{", "}">>,
           <<"{", "\"", "a", "\"", ":", " ", "1", "}", "}">> }
ParseSchemas == { [a |-> "int"], [a |-> "str"], [a |-> "list"] }

\* JSONParser.parse_and_validate(json_string, schema)
ParseAndValidate ==
    /\ \E json_string \in ParseTexts, schema \in ParseSchemas :
          /\ called' = [op |-> "parse_and_validate", json_string |-> json_string,
                        schema |-> schema]
          /\ call_result' = parse_and_validate(json_string, schema)
    /\ UNCHANGED <<chunker, componentsFrame>>

NextComponents ==
    \/ ForceInjectFilenameMetadata
    \/ ConstructChunker
    \/ ChunkText
    \/ ExtractReferences
    \/ ApplyReferenceExtraction
    \/ ApplyReferencesToFields

SpecComponents == InitComponents /\ [][NextComponents]_vars

\* The field maps of the direct calls of SchemaMapper.map (each output name
\* is used once, as in the maps of the repository): the empty one, one that
\* keeps the names, one that renames and names a key outside the canonical
\* fields.
FieldMaps ==
    { <<>>,
      << <<"name", "name">>, <<"purpose", "purpose">>,
         <<"governing_documents", "governing_documents">> >>,
      << <<"name", "id">>, <<"title", "heading">>, <<"purpose", "goal">>,
         <<"summary", "abstract">> >> }

\* The records of these calls: built from keyword arguments (the other
\* fields unset), with a field assigned afterwards (None included), and
\* rebuilt from a .dict() (every field set).
MapRecords ==
    LET built == DocumentMetadata([name |-> Str("doc"), language |-> Str("en")])
        extra == DocumentMetadata([name |-> Str("doc"), language |-> Str("en"),
                                   purpose |-> Str("p"), summary |-> Str("s")])
    IN  { built, extra,
          SetAttr(built, "title", None),
          SetAttr(built, "title", Str("t")),
          SetAttr(extra, "governing_documents", List(<<>>)),
          DocumentMetadata(built.data) }

\* SchemaMapper(output_schema_map).map(metadata)
MapRecord ==
    /\ \E items \in FieldMaps, metadata \in MapRecords :
          /\ called' = [op |-> "map", output_schema_map |-> items,
                        metadata |-> metadata]
          /\ call_result' = Returned(SchemaMapper_map(items, metadata))
    /\ UNCHANGED <<chunker, componentsFrame>>

\* The pipelines, texts and configurations of the direct calls of
\* CleaningPipeline.clean: the generic pipeline and pipelines of the
\* removers alone; texts with a run of line breaks, with a figure between
\* blank lines, with a figure inside the tags of another, with a selection
\* tag, with an underscore; no configuration, the default one, one without
\* patterns.
CleanerLists ==
    { get_generic_cleaning_pipeline,
      <<>>,
      <<"ExcessBreakLineRemover">>,
      <<"PatternRemover">>,
      <<"SelectionTagReplacer">>,
      <<"ExcessBreakLineRemover", "PatternRemover">>,
      <<"PatternRemover", "ExcessBreakLineRemover">> }
CleaningTexts ==
    { <<"a", "b">>,
      <<"a", "\n", "\n", "\n", "b">>,
      <<"a", "\n", "\n", "<", "f", "i", "g", "u", "r", "e", ">", "x", "<", "/", "f", "i", "g", "u", "r", "e", ">", "\n", "\n", "b">>,
      <<"<", "f", "i", "g", "<", "f", "i", "g", "u", "r", "e", ">", "x", "<", "/", "f", "i", "g", "u", "r", "e", ">", "u", "r", "e", ">", "y", "<", "/", "f", "i", "g", "u", "r", "e", ">">>,
      <<"a", ":", "s", "e", "l", "e", "c", "t", "e", "d", ":", "b">>,
      <<"a", "_", "b">> }
CleaningConfigs ==
    { NoCleaningConfig,
      CleaningConfig(DefaultPatternsToRemove, DefaultSelectionMappings),
      CleaningConfig(<<>>, DefaultSelectionMappings) }

\* CleaningPipeline(cleaners).clean(text, config), and clean again on what
\* it returned: the result keeps both texts.
CleanTwice ==
    /\ \E cleaners \in CleanerLists, text \in CleaningTexts,
          config \in CleaningConfigs, version \in MarkdownifyVersions :
          LET once == CleaningPipeline_clean(cleaners, text, config, version)
          IN  /\ called' = [op |-> "clean", cleaners |-> cleaners, text |-> text,
                            config |-> config]
              /\ call_result' = Returned([once |-> once,
                    twice |-> CleaningPipeline_clean(cleaners, once, config, version)])
    /\ UNCHANGED <<chunker, componentsFrame>>

\* The passes, model configurations and responses of the direct calls of
\* run_pass: a pass constructed with the schema run_pass names and the
\* generic pass, constructed with GenericMetadataSchema; a configuration
\* that is complete, one without model name, one without endpoint; the
\* responses of the run and one that conforms to GenericMetadataSchema.
GenericMetadataSchema == [summary |-> "str", keywords |-> "list"]
BaseLLMPass(name, output_schema, reference_extractor_name) ==
    [name |-> name, output_schema |-> output_schema,
     json_cleaner |-> reference_extractor_name]
GenericLLMPass(reference_extractor_name) ==
    BaseLLMPass("GenericLLMPass", GenericMetadataSchema, reference_extractor_name)
LLMPasses ==
    { BaseLLMPass("pass", MetadataExtractionSchema, "generic_refs"),
      GenericLLMPass("generic_refs") }
PassModelConfigs ==
    { load_from_env(SlmDefault, EnvFull, "en"),
      load_from_env(SlmDefault, EnvNoSlm, "en"),
      load_from_env(SlmDefault, [v \in {} |-> ""], "en"),
      [load_from_env(SlmDefault, EnvFull, "en") EXCEPT !.endpoint = ""] }
PassResponses ==
    Responses \cup {RawJson([summary |-> Str("s"), keywords |-> List(<<"k">>)])}

\* self.run_pass(model_client, model_config, ...), raw what generate does
\* when it is called; the pass's output_schema is not read.
RunPass ==
    /\ \E self \in LLMPasses, model_config \in PassModelConfigs, raw \in PassResponses :
       \E outcome \in run_pass(self.json_cleaner, model_config, raw) :
          /\ called' = [op |-> "run_pass", self |-> self,
                        model_config |-> model_config, raw |-> raw]
          /\ call_result' = [status |-> IF outcome.why = "ok" THEN "returned"
                                        ELSE "raised",
                             value |-> outcome.out, why |-> outcome.why,
                             generate_invoked |-> GenerateInvoked(outcome)]
    /\ UNCHANGED <<chunker, componentsFrame>>

\* The functions on texts and records called on their own, in a behaviour
\* of their own.
NextFunctions ==
    \/ ParseAndValidate
    \/ MapRecord
    \/ CleanTwice
    \/ RunPass

SpecFunctions == InitComponents /\ [][NextFunctions]_vars

\* ================================================================ history
\* The positions in calls of the run_pass invocations of pass p with the
\* primary ("slm") or the fallback ("llm") configuration.
CallsOf(p, config) == {i \in 1..Len(calls) : calls[i].pass = p /\ calls[i].config = config}
PrimaryCalls(p) == CallsOf(p, "slm")
FallbackCalls(p) == CallsOf(p, "llm")
SuccessfulCalls(p) == {i \in 1..Len(calls) : calls[i].pass = p /\ calls[i].ok}

\* The passes the loop of run_pipeline has reached, and those it is done with.
ReachedPasses == {p \in 1..passes : p <= pass_index /\ pc # "extract" /\ "llm" \in Range(stages)}
FinishedPasses == {p \in ReachedPasses : p < pass_index \/ llm_outcome # "none"}

\* Pass p has used up its recovery options: every primary attempt was made
\* and failed, and the fallback attempt, when enabled, was made and failed.
Exhausted(p) ==
    /\ p \in FinishedPasses
    /\ SuccessfulCalls(p) = {}
    /\ Cardinality(PrimaryCalls(p)) = attempts
    /\ enable_fallback => FallbackCalls(p) # {}

\* The output of pass p (p has succeeded).
OutputOf(p) == calls[CHOOSE i \in SuccessfulCalls(p) : TRUE].out
SucceededPasses == {p \in 1..passes : SuccessfulCalls(p) # {}}

\* The outputs of the succeeded passes merged by their meaning: each key has
\* the value of the last pass that wrote it.
LastWriter(k) == CHOOSE p \in SucceededPasses :
                    /\ k \in DOMAIN OutputOf(p)
                    /\ \A q \in SucceededPasses : k \in DOMAIN OutputOf(q) => q <= p
MergedOutputs == [k \in UNION {DOMAIN OutputOf(p) : p \in SucceededPasses} |->
                     OutputOf(LastWriter(k))[k]]

\* ================================================================= claims
\* C1: every failure of a primary attempt is caught and retried: run_pipeline
\* raises only when the failing pass has made all `attempts` primary
\* attempts; the primary configuration is invoked at most `attempts` times
\* per pass and never again for a pass after its first successful attempt.
C1_PrimaryRetries ==
    /\ \A p \in 1..passes :
          /\ Cardinality(PrimaryCalls(p)) <= attempts
          /\ \A i \in SuccessfulCalls(p) : \A j \in PrimaryCalls(p) : j <= i
    /\ llm_outcome = "raised" => Cardinality(PrimaryCalls(pass_index)) = attempts
    /\ \A i \in 1..Len(calls) :
          (~calls[i].ok /\ calls[i].config = "slm"
             /\ Cardinality({j \in PrimaryCalls(calls[i].pass) : j <= i}) < attempts)
          => (i < Len(calls) => calls[i + 1].pass = calls[i].pass /\ calls[i + 1].config = "slm")

\* A primary attempt failed and the next primary attempt of the same pass
\* succeeded.
C1_Witness ==
    \E i \in 1..Len(calls) :
       /\ i < Len(calls)
       /\ calls[i].config = "slm" /\ ~calls[i].ok
       /\ calls[i + 1].config = "slm" /\ calls[i + 1].ok
       /\ calls[i + 1].pass = calls[i].pass
       /\ pass_index > calls[i].pass

\* C2: a pass is attempted against the fallback configuration if and only if
\* all `attempts` primary attempts of it failed and enable_fallback is set,
\* and then exactly once, after the primary attempts.
C2_FallbackOnce ==
    /\ \A p \in 1..passes :
          /\ Cardinality(FallbackCalls(p)) <= 1
          /\ FallbackCalls(p) # {} =>
                /\ enable_fallback
                /\ Cardinality(PrimaryCalls(p)) = attempts
                /\ \A i \in PrimaryCalls(p) : ~calls[i].ok
                /\ \A i \in PrimaryCalls(p) : \A j \in FallbackCalls(p) : i < j
    /\ \A p \in FinishedPasses :
          (enable_fallback /\ \A i \in PrimaryCalls(p) : ~calls[i].ok)
          => Cardinality(FallbackCalls(p)) = 1

\* A pass was rescued by its fallback attempt after two failed primary
\* attempts.
C2_Witness ==
    \E p \in FinishedPasses :
       /\ attempts = 2
       /\ Cardinality(PrimaryCalls(p)) = 2
       /\ \E j \in FallbackCalls(p) : calls[j].ok

\* C3 as stated: with a model client that always raises, attempts = k >= 1 and
\* enable_fallback = False, run_pipeline raises after exactly k invocations
\* with the primary configuration and none with the fallback configuration.
C3_AsStated ==
    (llm_outcome # "none" /\ ~client_answered /\ attempts >= 1 /\ ~enable_fallback)
    => /\ llm_outcome = "raised"
       /\ Cardinality({i \in 1..Len(calls) : calls[i].config = "slm"}) = attempts
       /\ {i \in 1..Len(calls) : calls[i].config = "llm"} = {}

\* C3, amended: the same for a pipeline that has at least one pass.
C3_AlwaysRaisingClient ==
    (llm_outcome # "none" /\ ~client_answered /\ attempts >= 1 /\ ~enable_fallback
       /\ passes >= 1)
    => /\ llm_outcome = "raised"
       /\ Cardinality({i \in 1..Len(calls) : calls[i].config = "slm"}) = attempts
       /\ {i \in 1..Len(calls) : calls[i].config = "llm"} = {}

\* The client raised in each of the two attempts of the first of two passes,
\* the environment is fully configured, and run_pipeline raised.
C3_Witness ==
    /\ llm_outcome = "raised"
    /\ ~client_answered /\ attempts = 2 /\ ~enable_fallback /\ passes = 2
    /\ slm_openai_config.model_name # ""
    /\ Len(calls) = 2

\* C4: a pass that is still unsuccessful after its primary attempts and its
\* fallback attempt makes run_pipeline raise at once: it does not return a
\* result, and no later pass is invoked.
C4_FailsImmediately ==
    \A p \in 1..passes :
       Exhausted(p) =>
          /\ llm_outcome = "raised"
          /\ pass_index = p
          /\ \A i \in 1..Len(calls) : calls[i].pass <= p
          /\ "fallback" \notin Range(stages) => Falsy(llm_extracted_metadata_dict)

\* The first of two passes succeeded, the second one failed its primary
\* attempts and its fallback attempt, and run_pipeline raised.
C4_Witness ==
    /\ passes = 2 /\ Exhausted(2) /\ enable_fallback /\ attempts >= 1
    /\ SuccessfulCalls(1) # {}
    /\ ~Falsy(final_output)

\* C5 as stated: run_pipeline fails only if every pass of the pipeline
\* exhausts all of its recovery options.
C5_AsStated ==
    llm_outcome = "raised" => \A p \in 1..passes : Exhausted(p)

\* C5, amended: run_pipeline fails if and only if some pass exhausts all of
\* its recovery options, whether or not earlier passes succeeded.
C5_FailsIffSomePassExhausted ==
    llm_outcome # "none" =>
       (llm_outcome = "raised" <=> \E p \in 1..passes : Exhausted(p))

\* run_pipeline raised although its first pass had succeeded.
C5_Witness ==
    /\ llm_outcome = "raised"
    /\ SuccessfulCalls(1) # {}

\* C6: the first pass receives initial_content, each later pass the JSON
\* serialization of the output of the pass before it, and the accumulated
\* (and, in the end, returned) mapping is the outputs of the succeeded passes
\* merged in pass order, the last writer of a key winning.
C6_ChainAndMerge ==
    /\ \A i \in 1..Len(calls) :
          calls[i].input = IF calls[i].pass = 1
                           THEN TextContent(processed_content_for_llm)
                           ELSE JsonDumps(OutputOf(calls[i].pass - 1))
    /\ "llm" \in Range(stages) => final_output = MergedOutputs
    /\ llm_outcome = "returned" =>
          /\ SucceededPasses = 1..passes
          /\ "fallback" \notin Range(stages) => llm_extracted_metadata_dict = MergedOutputs

\* A run of two passes returned, and the two outputs differ in a key.
C6_Witness ==
    /\ llm_outcome = "returned" /\ passes = 2
    /\ \E k \in DOMAIN OutputOf(1) : k \in DOMAIN OutputOf(2) /\ OutputOf(1)[k] # OutputOf(2)[k]

\* C7 as stated: the fallback mechanism is invoked only in a run where
\* run_pipeline raised and a mechanism is configured; when run_pipeline raised
\* and no mechanism is configured, run returns None straight after the LLM
\* stage, without post-processing or schema mapping.
C7_AsStated ==
    /\ "fallback" \in Range(stages) => (llm_outcome = "raised" /\ fallback_mechanism)
    /\ (llm_outcome = "raised" /\ ~fallback_mechanism) =>
          /\ pc = "done" /\ result = ReturnNone
          /\ stages[Len(stages)] = "llm"

\* C7, amended: the fallback mechanism is invoked only in a run where
\* run_pipeline raised or returned an empty result, and a mechanism is
\* configured; the second half as stated.
C7_FallbackOnlyAfterFailure ==
    /\ "fallback" \in Range(stages) =>
          /\ llm_outcome = "raised" \/ (llm_outcome = "returned" /\ Falsy(final_output))
          /\ fallback_mechanism
    /\ (llm_outcome = "raised" /\ ~fallback_mechanism) =>
          /\ pc = "done" /\ result = ReturnNone
          /\ stages[Len(stages)] = "llm"

\* The first pass exhausted its attempts, run_pipeline raised, and the
\* configured fallback mechanism was invoked.
C7_Witness ==
    /\ "fallback" \in Range(stages)
    /\ llm_outcome = "raised" /\ Exhausted(1) /\ attempts >= 1

\* C8: a finished run in which the LLM layer failed and was not recovered (no
\* fallback mechanism, or one that raised or returned no result) has returned
\* None, never a record.
C8_AllOrNothing ==
    (pc = "done" /\ llm_outcome = "raised" /\ Falsy(llm_extracted_metadata_dict))
    => result = ReturnNone

\* The stages of run in their declared order, without and with the fallback
\* mechanism.
DeclaredOrders ==
    { <<"load", "parse", "clean", "chunk", "llm", "postproc", "map">>,
      <<"load", "parse", "clean", "chunk", "llm", "fallback", "postproc", "map">> }

\* C9: the stages of a run start in the declared order, each one after the
\* stage before it has completed (the stages started so far are a prefix of
\* the declared order; while the LLM pass pipeline runs it is the last stage
\* started, and it makes no model call before it has started; the fallback
\* mechanism and the post-processing start after run_pipeline has ended), and a
\* record is returned only by the schema mapping, which follows the
\* post-processing.
C9_StagesInOrder ==
    /\ \E order \in DeclaredOrders :
          /\ Len(stages) <= Len(order)
          /\ stages = SubSeq(order, 1, Len(stages))
    /\ pc = "llm" => (stages[Len(stages)] = "llm" /\ llm_outcome = "none")
    /\ calls # <<>> => "llm" \in Range(stages)
    /\ ("fallback" \in Range(stages) \/ "postproc" \in Range(stages)) => llm_outcome # "none"
    /\ result.status = "record" =>
          /\ Len(stages) >= 2
          /\ stages[Len(stages)] = "map"
          /\ stages[Len(stages) - 1] = "postproc"
          /\ processed_metadata # NoMetadata

\* A run went through all eight stages and returned a record.
C9_Witness ==
    /\ result.status = "record"
    /\ Len(stages) = 8
    /\ calls # <<>>

\* C10 as stated: a stage that raises, the LLM pass pipeline included, ends
\* the run with None; no later stage is invoked and the failing stage is not
\* invoked again.
C10_AsStated ==
    \A i \in 1..Len(raised) :
       /\ pc = "done" /\ result = ReturnNone
       /\ stages[Len(stages)] = raised[i]
       /\ Cardinality({j \in 1..Len(stages) : stages[j] = raised[i]}) = 1

\* C10, amended: a raising stage other than the LLM pass pipeline (whose
\* extraction failure run handles itself) ends the run with None; it is the
\* last stage invoked and is invoked once; after a failure of load, filename
\* parse, clean or chunk there is no model call.
C10_StageFailureReturnsNone ==
    \A i \in 1..Len(raised) :
       raised[i] # "llm" =>
          /\ pc = "done" /\ result = ReturnNone
          /\ i = Len(raised)
          /\ stages[Len(stages)] = raised[i]
          /\ Cardinality({j \in 1..Len(stages) : stages[j] = raised[i]}) = 1
          /\ raised[i] \in {"load", "parse", "clean", "chunk"} => calls = <<>>

\* The chunker raised after load, filename parse and clean had returned.
C10_Witness ==
    /\ raised = <<"chunk">>
    /\ stages = <<"load", "parse", "clean", "chunk">>
    /\ result = ReturnNone

\* C11: when two calls of run on one MetadataPipeline execute concurrently,
\* every model invocation of each call uses the model name resolved for the
\* language of that call's own document.
C11_OwnLanguageModel ==
    \A r \in DOMAIN runs :
       \A u \in runs[r].used :
          u[2] = ResolvedModel(IF u[1] = "slm" THEN SlmDefault ELSE LlmDefault,
                               runs[r].language)

\* The identity fields of the canonical record.
IdentityFields == {"name", "version", "status", "language", "document_type"}

\* C12: in the record a successful run returns, every identity field that the
\* filename parser derived and the schema map keeps holds the filename-derived
\* value, whatever the LLM passes or the fallback mechanism produced for it.
C12_FilenameWins ==
    result.status = "record" =>
       \A f \in IdentityFields \cap DOMAIN filename_metadata \cap DOMAIN output_schema_map :
          /\ output_schema_map[f] \in DOMAIN result.out
          /\ result.out[output_schema_map[f]] = filename_metadata[f]

\* A run returned a record although the fallback mechanism, whose result the
\* record was built from, had produced another name than the filename.
C12_Witness ==
    /\ result.status = "record"
    /\ "name" \in DOMAIN fallback_result
    /\ fallback_result["name"] # filename_metadata["name"]
    /\ llm_extracted_metadata_dict = fallback_result

NoDuplicates(xs) == \A i, j \in 1..Len(xs) : xs[i] = xs[j] => i = j

\* C14: in every record a pass produced (the output of a successful run_pass,
\* which is the output of clean_parsed_json) no field is null: each list field
\* of the schema is a list, without duplicates, and each string field is a
\* string.
C14_PassRecordNormalized ==
    \A i \in 1..Len(calls) :
       calls[i].ok =>
          /\ DOMAIN calls[i].out = DOMAIN MetadataExtractionSchema
          /\ \A k \in DOMAIN calls[i].out :
                /\ calls[i].out[k].t = MetadataExtractionSchema[k]
                /\ NoDuplicates(calls[i].out[k].l)

\* A pass succeeded on the answer with a null purpose and a list holding
\* "a.pdf" twice: its record has the empty string and the list of one item.
C14_Witness ==
    \E i \in 1..Len(calls) :
       /\ calls[i].ok
       /\ calls[i].out["purpose"] = Str("")
       /\ calls[i].out["governing_documents"] = List(<<"a.pdf">>)

\* C15: in the canonical record that reaches the schema mapping of a
\* successful run (one whose data the LLM passes or the fallback mechanism
\* extracted), every list field is a list without duplicates and every string
\* field is a string, never null.
C15_CanonicalRecordNormalized ==
    (result.status = "record" /\ ~Falsy(llm_extracted_metadata_dict)) =>
       \A f \in model_fields :
          /\ processed_metadata.data[f].t =
                (IF DocumentMetadataFields[f] = "list" THEN "list" ELSE "str")
          /\ NoDuplicates(processed_metadata.data[f].l)

\* C16: for every chunker that was constructed and every text of length L,
\* chunk returns the text alone when L <= max_length, and otherwise the one
\* chunk of length exactly 2 * head_length made of the first head_length and
\* the last head_length characters of the text.
C16_HeadAndTail ==
    (called.op = "chunk" /\ call_result.status = "returned") =>
       LET text == called.text
           head == called.self.head_length
           chunks == call_result.value
       IN IF Len(text) <= called.self.max_length
          THEN chunks = <<text>>
          ELSE /\ Len(chunks) = 1
               /\ Len(chunks[1]) = 2 * head
               /\ \A i \in 1..head :
                     /\ chunks[1][i] = text[i]
                     /\ chunks[1][head + i] = text[Len(text) - head + i]

\* C17: HeadTailChunker with 2 * head_length > max_length raises and makes no
\* chunker: every chunker there is, and every chunker a text is chunked by,
\* has 2 * head_length <= max_length.
C17_ConstructionEnforcesLengths ==
    /\ chunker.constructed => 2 * chunker.head_length <= chunker.max_length
    /\ (called.op = "HeadTailChunker" /\ 2 * called.head_length > called.max_length)
          => call_result = Raised
    /\ called.op = "chunk" => 2 * called.self.head_length <= called.self.max_length

\* The construction with head_length = 2 and max_length = 3 raised.
C17_Witness ==
    /\ called.op = "HeadTailChunker"
    /\ called.head_length = 2 /\ called.max_length = 3
    /\ call_result = Raised

\* C18: whatever the text and the patterns, the list extract_references
\* returns holds no value twice.
C18_NoDuplicateReference ==
    (called.op = "extract_references" /\ call_result.status = "returned") =>
       NoDuplicates(call_result.value)

\* The text holds "a.pdf" twice, two patterns match it, and the list returned
\* holds it once.
C18_Witness ==
    /\ called.op = "extract_references"
    /\ called.text = "a.pdf a.pdf"
    /\ called.self.patterns = <<"file", "file">>
    /\ call_result = Returned(<<"a.pdf">>)

\* The standardized matches of pattern in text, as the caller expects them.
ExpectedMatches(self, pattern, text) ==
    {IF self.standardize_func = "none" THEN m ELSE Strip(m) :
        m \in Range(FindAll(pattern, text))}

\* C19: extract_references never raises; when the matching or the
\* standardization of some pattern raises it returns the empty list, and
\* otherwise the union, without duplicates, of the standardized matches of all
\* patterns.
C19_EmptyOnException ==
    called.op = "extract_references" =>
       LET self == called.self
           text == called.text
           raises == \E i \in 1..Len(self.patterns) :
                        \/ self.patterns[i] = "bad"
                        \/ /\ self.standardize_func # "none"
                           /\ "(a, pdf)" \in Range(FindAll(self.patterns[i], text))
       IN /\ call_result.status = "returned"
          /\ raises => call_result.value = <<>>
          /\ ~raises =>
                /\ Range(call_result.value) =
                      UNION {ExpectedMatches(self, self.patterns[i], text) :
                                i \in 1..Len(self.patterns)}
                /\ NoDuplicates(call_result.value)

\* The second pattern did not compile after the first had matched "a.pdf", and
\* the empty list was returned.
C19_Witness ==
    /\ called.op = "extract_references"
    /\ called.self.patterns = <<"file", "bad">>
    /\ called.text = "a.pdf"
    /\ call_result = Returned(<<>>)

\* C20: with a reference extractor name that is not registered,
\* JSONCleaner.apply_reference_extraction and
\* MetadataPostProcessor.apply_references_to_fields raise nothing and return
\* the record they were given, every field unchanged.
C20_UnregisteredNameSkips ==
    /\ (called.op = "apply_reference_extraction"
          /\ called.reference_extractor_name \notin RegisteredExtractors)
       => call_result = Returned(called.data)
    /\ (called.op = "apply_references_to_fields"
          /\ called.reference_extractor_name \notin RegisteredExtractors)
       => call_result = Returned(called.metadata)

\* A post-processor made with the unregistered name "missing_refs" returned a
\* record unchanged whose governing_documents the registered extractor would
\* have rewritten.
C20_Witness ==
    /\ called.op = "apply_references_to_fields"
    /\ called.reference_extractor_name = "missing_refs"
    /\ called.metadata.data["governing_documents"] = List(<<"see a.pdf ", "a.pdf">>)
    /\ call_result = Returned(called.metadata)

\* The direct calls of parse_and_validate on the text of a document written
\* in a code fence with single quotes around keys and strings.
FencedSingleQuoted(doc, trailing) ==
    /\ called.op = "parse_and_validate"
    /\ Delimits(doc, "'")
    /\ called.json_string = Render(doc, "'", trailing, TRUE)
    /\ SchemaAccepts(called.schema, Denoted(doc))

\* No string of the document holds a quote character or a comma.
PlainStrings(doc) ==
    \A n \in 1..Len(doc.items) : Range(doc.items[n]) \cap {"'", "\"", ","} = {}

C25_StrictJsonAccepted ==
    called.op = "parse_and_validate"
        => LET strict == json_loads(called.json_string)
           IN  strict.ok /\ strict.kind = "dict"
               /\ SchemaAccepts(called.schema, strict.value)
                   => call_result = Returned(SchemaDict(called.schema, strict.value))

C23_CleanIdempotent ==
    called.op = "clean" => call_result.value.twice = call_result.value.once

\* What run returns from its filter of the extracted dict on (the record
\* built, post-processed and mapped), for the document and filename of the
\* run and the dict extracted: every result the stages can give.
RunEndsFor(extracted) ==
    LET kwargs == DictUpdate(document.initial_metadata,
                             WithoutKeys(extracted, document.initial_metadata))
        intermediate == SetAttr(DocumentMetadata(kwargs), "title",
                                DictGet(f1_metadata, "title"))
    IN  IF ~DocumentMetadataValid(kwargs)
           \/ ~apply_references_valid(configured_extractor_name, intermediate)
        THEN {ReturnNone}
        ELSE { IF ~DocumentMetadataValid(force_inject_dict(applied, filename_metadata))
               THEN ReturnNone
               ELSE ReturnRecord(schema_map(DocumentMetadata(
                        force_inject_dict(applied, filename_metadata)))) :
               applied \in apply_references_to_fields(configured_extractor_name,
                                                      intermediate) }

\* C24: a result R of the fallback mechanism is treated as the merged result
\* of the passes: a run whose pass pipeline failed and whose fallback
\* mechanism returned R, and a run whose pass pipeline returned R, end as the
\* stages after extraction end for R, the document, the filename and the
\* configuration of the run.
C24_FallbackAsMerged ==
    (pc = "done" /\ "postproc" \in Range(stages)) =>
       /\ (llm_outcome = "raised" /\ "fallback" \in Range(stages))
             => result \in RunEndsFor(fallback_result)
       /\ (llm_outcome = "returned" /\ ~Falsy(final_output))
             => result \in RunEndsFor(final_output)

\* The pass pipeline failed, the fallback mechanism returned a result that
\* the pass pipeline can return as well, and run returned a record.
C24_Witness ==
    /\ pc = "done"
    /\ result.status = "record"
    /\ llm_outcome = "raised"
    /\ fallback_result = [purpose |-> Str("p"), governing_documents |-> List(<<>>)]
    /\ result \in RunEndsFor(fallback_result)

\* C26: a pass asks the model client for, and validates the response
\* against, the output schema it was constructed with: a response that
\* conforms to that schema is accepted by run_pass and the schema's fields
\* are in the pass output.
C26_OwnOutputSchema ==
    (/\ called.op = "run_pass"
     /\ called.model_config.model_name # "" /\ called.model_config.endpoint # ""
     /\ called.raw.kind = "text" /\ called.raw.wellformed
     /\ SchemaAccepts(called.self.output_schema, called.raw.obj))
    => /\ call_result.status = "returned"
       /\ DOMAIN called.self.output_schema \subseteq DOMAIN call_result.value

\* C27: run_pass checks the model configuration on every invocation: without
\* a model name or without an endpoint it raises a configuration error and
\* generate is not called.
C27_ConfigurationChecked ==
    (/\ called.op = "run_pass"
     /\ called.model_config.model_name = "" \/ called.model_config.endpoint = "")
    => /\ call_result.status = "raised"
       /\ call_result.why = "config"
       /\ ~call_result.generate_invoked

\* run_pass was called with a model name and no endpoint, and with a
\* response that would have been accepted: it raised.
C27_Witness ==
    /\ called.op = "run_pass"
    /\ called.model_config.model_name # ""
    /\ called.model_config.endpoint = ""
    /\ ParseSucceeds(called.raw, MetadataExtractionSchema)
    /\ call_result.status = "raised"

\* C28: a primary configuration without model name or endpoint is handled
\* as any failed attempt: a pass that is over was attempted `attempts` times
\* against the primary configuration, none of them with a call of generate,
\* then once against the fallback configuration if enable_fallback is set
\* (and not at all otherwise), and the pass succeeded if that attempt did.
C28_IncompletePrimaryConfig ==
    (slm_openai_config.model_name = "" \/ slm_openai_config.endpoint = "") =>
       \A p \in FinishedPasses :
          /\ Cardinality(PrimaryCalls(p)) = attempts
          /\ \A i \in PrimaryCalls(p) : ~calls[i].generated /\ ~calls[i].ok
          /\ Cardinality(FallbackCalls(p)) = IF enable_fallback THEN 1 ELSE 0
          /\ p \in SucceededPasses <=> \E i \in FallbackCalls(p) : calls[i].ok

\* Without a primary model name, with two attempts and the fallback enabled,
\* run returned a record: the pass made two primary attempts without a call
\* of generate and its fallback attempt succeeded.
C28_Witness ==
    /\ slm_openai_config.model_name = ""
    /\ attempts = 2 /\ enable_fallback /\ passes >= 1
    /\ result.status = "record"
    /\ llm_outcome = "returned"
    /\ Cardinality(PrimaryCalls(1)) = 2
    /\ \E i \in FallbackCalls(1) : calls[i].ok /\ calls[i].generated

\* The run_pass invocations run_pipeline has made, and f: 1 if enable_fallback
\* is set, 0 if not.
Invocations == Len(calls)
FallbackShare == IF enable_fallback THEN 1 ELSE 0
NoPrimaryWithoutAttempts ==
    attempts <= 0 => \A i \in 1..Len(calls) : calls[i].config # "slm"
RunPipelineReturnsOrRaises == (pc = "llm") ~> (llm_outcome # "none")

\* C29, as stated: run_pipeline makes at most N * (attempts + f) run_pass
\* invocations for N passes, makes no primary invocation when attempts <= 0,
\* and ends (it returns or raises) when every model call returns or raises.
C29_AsStated ==
    /\ [](Invocations <= passes * (attempts + FallbackShare))
    /\ []NoPrimaryWithoutAttempts
    /\ RunPipelineReturnsOrRaises

\* C29, amended: the invocations are at most N * (max(attempts, 0) + f): a
\* negative attempts counts as zero primary attempts and leaves the fallback
\* attempt of each pass.
C29_BoundedAndEnds ==
    /\ [](Invocations <= passes * ((IF attempts > 0 THEN attempts ELSE 0)
                                    + FallbackShare))
    /\ []NoPrimaryWithoutAttempts
    /\ RunPipelineReturnsOrRaises

\* run_pipeline returned after as many invocations as the bound allows, with
\* a negative attempts: one fallback invocation for each of two passes.
C29_Witness ==
    /\ attempts < 0 /\ enable_fallback /\ passes = 2
    /\ llm_outcome = "returned"
    /\ Invocations = 2
    /\ \A i \in 1..Len(calls) : calls[i].config = "llm"

\* The canonical fields the field map names, and those of them that no source
\* supplied in this run: not the filename parser (initial and filename
\* metadata), not the LLM passes or the fallback mechanism (the extracted
\* dict), not the external title.
MappedCanonicalFields == DOMAIN output_schema_map \cap model_fields
NeverSupplied ==
    {f \in MappedCanonicalFields :
        /\ f \notin DOMAIN document.initial_metadata
        /\ f \notin DOMAIN filename_metadata
        /\ f \notin DOMAIN llm_extracted_metadata_dict
        /\ f # "title"}

\* C30: in every successful run, every canonical field the field map names is
\* a key of the output (under its output name); a field no source supplied is
\* there with its default, null or the empty list.
C30_MappedFieldsAllPresent ==
    result.status = "record" =>
       /\ \A f \in MappedCanonicalFields : output_schema_map[f] \in DOMAIN result.out
       /\ \A f \in NeverSupplied : result.out[output_schema_map[f]] = FieldDefault(f)

\* A run returned a record in which purpose and governing_documents, supplied
\* by no source, are present as null and as the empty list.
C30_Witness ==
    /\ result.status = "record"
    /\ {"purpose", "governing_documents"} \subseteq NeverSupplied
    /\ result.out["purpose"] = None
    /\ result.out["governing_documents"] = List(<<>>)

====
